---- MODULE Spec2Model ----
(***************************************************************************)
(* VideoFrameAnalyzer: telemetry ingestion, lap indexing, GPS sector       *)
(* segmentation, diff-to-best-lap and video/telemetry synchronisation.     *)
(*                                                                         *)
(* Units.  Times are integers in milliseconds (the code's seconds * 1000), *)
(* speeds are integers in km/h, latitude and longitude are integers in     *)
(* micro-degrees (the code's degrees * 10^6).  Quantities the code obtains *)
(* by interpolation (crossing times, sector times, diffs) are exact        *)
(* rationals [n, d] in lowest terms, so equality is equality of values.    *)
(* Inputs lie close to the equator, where cos(latitude) is 1 at this       *)
(* resolution, and headings are multiples of 90 degrees.  The two clock    *)
(* conversions are also modelled on their own in the language's floating-  *)
(* point arithmetic, where a sum or difference is rounded.                 *)
(***************************************************************************)
EXTENDS Integers, Sequences, FiniteSets, TLC

(***************************************************************************)
(* Program constants, converted to the units above.                        *)
(***************************************************************************)
MinDecelDuration == 1000      \* duration >= 1.0 s keeps a closed deceleration
DanglingDecelDuration == 200  \* duration >= 0.2 s keeps a dangling deceleration
MinSectorDuration == 5000     \* sectors shorter than 5.0 s are merged
BorderLead == 200             \* border placed 0.2 s before the sector end
MinFinalSector == 2000        \* no border closer than 2.0 s to the lap end
lineLength == 40              \* 0.00004 degrees
DenomEps == 100               \* 1e-10 square degrees
AnchorWindow == 1000          \* anchor within 1.0 s of the aligned time
MaxLook == 5                  \* look-ahead / look-behind window in samples

(***************************************************************************)
(* Exact rational arithmetic.                                              *)
(***************************************************************************)
Abs(x) == IF x < 0 THEN -x ELSE x

Min2(a, b) == IF a < b THEN a ELSE b

Max2(a, b) == IF a > b THEN a ELSE b

RECURSIVE Gcd(_, _)
Gcd(a, b) == IF b = 0 THEN a ELSE Gcd(b, a % b)

Rat(n, d) ==
    LET g == Gcd(Abs(n), Abs(d))
        s == IF d < 0 THEN -1 ELSE 1
    IN  [n |-> (s * n) \div g, d |-> (s * d) \div g]

RInt(i) == [n |-> i, d |-> 1]

RAdd(a, b) == Rat(a.n * b.d + b.n * a.d, a.d * b.d)

RSub(a, b) == Rat(a.n * b.d - b.n * a.d, a.d * b.d)

RMul(a, b) == Rat(a.n * b.n, a.d * b.d)

RLess(a, b) == a.n * b.d < b.n * a.d

RLeq(a, b) == a.n * b.d <= b.n * a.d

RECURSIVE RSum(_)
RSum(s) == IF s = <<>> THEN RInt(0) ELSE RAdd(Head(s), RSum(Tail(s)))

\* Math.round of a rational to the nearest integer (halves round up).
RRound(a) == (2 * a.n + a.d) \div (2 * a.d)

(***************************************************************************)
(* Number arithmetic of the video clock.  video.currentTime, syncOffset    *)
(* and the lap start times are JavaScript numbers: binary floating point   *)
(* with a significand of 53 bits, every sum and difference rounded to the  *)
(* nearest representable value, ties to the even significand.  A number is *)
(* [neg, exp, m] with value (-1)^neg * m * 2^exp, where m is a natural     *)
(* number written as its bits from the least significant one; in canonical *)
(* form m is odd (or empty, for zero), so equal numbers are equal records. *)
(* Times are far from the overflow and underflow thresholds.               *)
(***************************************************************************)
Significand == 53

\* the bits of a natural number below 2^30
bitsOf(n) == [i \in 1..30 |-> (n \div 2^(i - 1)) % 2]

\* without the zeros above the most significant one
trimBits(b) ==
    LET ones == {i \in 1..Len(b) : b[i] = 1}
    IN  IF ones = {} THEN <<>>
        ELSE SubSeq(b, 1, CHOOSE i \in ones : \A j \in ones : j <= i)

\* the number of zeros below the least significant one
lowZeros(b) ==
    LET ones == {i \in 1..Len(b) : b[i] = 1}
    IN  IF ones = {} THEN 0
        ELSE (CHOOSE i \in ones : \A j \in ones : i <= j) - 1

bitAt(b, i) == IF i <= Len(b) THEN b[i] ELSE 0

shiftBits(b, k) == [i \in 1..k |-> 0] \o b

\* a + b: the carry into position i is generated at a lower position where
\* both bits are set and propagated by every position in between
addBits(a, b) ==
    LET carry(i) == \E j \in 1..(i - 1) :
                        /\ bitAt(a, j) + bitAt(b, j) = 2
                        /\ \A k \in (j + 1)..(i - 1) : bitAt(a, k) + bitAt(b, k) >= 1
    IN  [i \in 1..(Max2(Len(a), Len(b)) + 1) |->
            (bitAt(a, i) + bitAt(b, i) + (IF carry(i) THEN 1 ELSE 0)) % 2]

\* a - b for a >= b, with the borrow in place of the carry
subBits(a, b) ==
    LET borrow(i) == \E j \in 1..(i - 1) :
                         /\ bitAt(a, j) < bitAt(b, j)
                         /\ \A k \in (j + 1)..(i - 1) : bitAt(a, k) <= bitAt(b, k)
    IN  [i \in 1..Len(a) |->
            (bitAt(a, i) + bitAt(b, i) + (IF borrow(i) THEN 1 ELSE 0)) % 2]

\* a < b for bit strings of any length
lessBits(a, b) ==
    LET Less(x, y) ==
            \/ Len(x) < Len(y)
            \/ /\ Len(x) = Len(y)
               /\ \E i \in 1..Len(x) :
                      /\ x[i] < y[i]
                      /\ \A j \in (i + 1)..Len(x) : x[j] = y[j]
    IN  Less(trimBits(a), trimBits(b))

Zero == [neg |-> FALSE, exp |-> 0, m |-> <<>>]

canonical(neg, exp, m) ==
    LET Odd(t, z) == [neg |-> neg, exp |-> exp + z, m |-> SubSeq(t, z + 1, Len(t))]
        Trimmed(t) == IF t = <<>> THEN Zero ELSE Odd(t, lowZeros(t))
    IN  Trimmed(trimBits(m))

negated(a) == IF a.m = <<>> THEN a ELSE [a EXCEPT !.neg = ~a.neg]

\* a + b without rounding
exactSum(a, b) ==
    LET Aligned(e, ma, mb) ==
            IF a.neg = b.neg THEN canonical(a.neg, e, addBits(ma, mb))
            ELSE IF lessBits(ma, mb) THEN canonical(b.neg, e, subBits(mb, ma))
                 ELSE canonical(a.neg, e, subBits(ma, mb))
        Scaled(e) == Aligned(e, shiftBits(a.m, a.exp - e), shiftBits(b.m, b.exp - e))
    IN  IF a.m = <<>> THEN b
        ELSE IF b.m = <<>> THEN a
             ELSE Scaled(Min2(a.exp, b.exp))

\* the nearest number with a significand of 53 bits, ties to even
roundToNumber(v) ==
    LET Rounded(k, kept) ==
            IF v.m[k] = 1 /\ (k > 1 \/ kept[1] = 1)
            THEN canonical(v.neg, v.exp + k, addBits(kept, <<1>>))
            ELSE canonical(v.neg, v.exp + k, kept)
        Cut(k) == Rounded(k, SubSeq(v.m, k + 1, Len(v.m)))
    IN  IF Len(v.m) <= Significand THEN v ELSE Cut(Len(v.m) - Significand)

\* a sum that subtracts its second term
numberSumOfNegated(a, b) == roundToNumber(exactSum(a, negated(b)))

\* a + b and a - b as the language computes them
numberSum(a, b) == roundToNumber(exactSum(a, b))

numberDifference(a, b) == roundToNumber(exactSum(a, negated(b)))

\* Long division by 1000 of a natural number given by its digits to the base
\* 1024, most significant first: the quotient's digits and the remainder.
RECURSIVE thousandthFrom(_, _, _)
thousandthFrom(digits, i, rem) ==
    LET Rest(digit, rest) == [q |-> <<digit>> \o rest.q, rem |-> rest.rem]
        Step(r) == Rest(r \div 1000, thousandthFrom(digits, i + 1, r % 1000))
    IN  IF i > Len(digits) THEN [q |-> <<>>, rem |-> rem]
        ELSE Step(1024 * rem + digits[i])

\* The number a decimal with three places denotes (parseFloat, or a clock
\* reading of whole milliseconds below 2^20): ms / 1000 rounded to the
\* nearest number.  The quotient is taken with 70 binary places and one more
\* bit that records a remainder, which is below every rounding position.
numberOfMillis(ms) ==
    LET Quotient(d) ==
            roundToNumber(canonical(ms < 0, -71,
                <<IF d.rem = 0 THEN 0 ELSE 1>>
                    \o [p \in 1..(10 * Len(d.q)) |->
                           (d.q[Len(d.q) - ((p - 1) \div 10)]
                                \div 2^((p - 1) % 10)) % 2]))
    IN  Quotient(thousandthFrom(
            <<Abs(ms) \div 1024, Abs(ms) % 1024, 0, 0, 0, 0, 0, 0, 0>>, 1, 0))

(***************************************************************************)
(* Gate-crossing geometry.                                                 *)
(***************************************************************************)
NoIntersection == [found |-> FALSE, t |-> RInt(0)]

\* lineSegmentIntersection: x is longitude, y is latitude; t is the
\* interpolation factor on the first segment.
lineSegmentIntersection(x1, y1, x2, y2, x3, y3, x4, y4) ==
    LET denom == (x1 - x2) * (y3 - y4) - (y1 - y2) * (x3 - x4)
        tn == (x1 - x3) * (y3 - y4) - (y1 - y3) * (x3 - x4)
        un == -((x1 - x2) * (y1 - y3) - (y1 - y2) * (x1 - x3))
        InUnit(num) == IF denom > 0 THEN 0 <= num /\ num <= denom
                                    ELSE denom <= num /\ num <= 0
    IN  IF Abs(denom) < DenomEps THEN NoIntersection
        ELSE IF InUnit(tn) /\ InUnit(un)
             THEN [found |-> TRUE, t |-> Rat(tn, denom)]
             ELSE NoIntersection

\* The distance to the infinite line through the border, without clamping
\* the projection to the segment (on the scale of distanceToLineSegment).
distanceToLine(point, border) ==
    LET cross == (point.lon - border.startLon) * (border.endLat - border.startLat)
                     - (point.lat - border.startLat) * (border.endLon - border.startLon)
    IN  cross * cross

\* distanceToLineSegment.  The code compares square roots; for one border
\* all distances share the segment length, so the model returns the squared
\* distance multiplied by the squared segment length (an integer), which
\* orders points exactly as the code's distances do.
distanceToLineSegment(point, border) ==
    LET x == point.lon
        y == point.lat
        x1 == border.startLon
        y1 == border.startLat
        x2 == border.endLon
        y2 == border.endLat
        segmentLengthSquared == (x2 - x1) * (x2 - x1) + (y2 - y1) * (y2 - y1)
        dot == (x - x1) * (x2 - x1) + (y - y1) * (y2 - y1)
        cross == (x - x1) * (y2 - y1) - (y - y1) * (x2 - x1)
    IN  IF segmentLengthSquared = 0
        THEN (x - x1) * (x - x1) + (y - y1) * (y - y1)
        ELSE IF dot <= 0
             THEN ((x - x1) * (x - x1) + (y - y1) * (y - y1)) * segmentLengthSquared
             ELSE IF dot >= segmentLengthSquared
                  THEN ((x - x2) * (x - x2) + (y - y2) * (y - y2)) * segmentLengthSquared
                  ELSE cross * cross

\* The fallback loop of findBorderCrossing keeps a sample only when it is
\* strictly closer than the one kept so far: it ends on the earliest sample
\* (1-based) at minimal distance from the border.
closestPointIndex(lapData, border) ==
    LET Earliest(distance) ==
            CHOOSE i \in 1..Len(lapData) :
                /\ \A j \in 1..Len(lapData) : distance[i] <= distance[j]
                /\ \A j \in 1..(i - 1) : distance[i] < distance[j]
    IN  Earliest([j \in 1..Len(lapData) |->
                     distanceToLineSegment(lapData[j], border)])

\* A crossing that is not interpolated: the time of the pair's second sample.
pairCrossingAtSecondSample(lapData, border, i) ==
    LET Crossing(intersection) ==
            IF intersection.found
            THEN [found |-> TRUE, time |-> RInt(lapData[i + 1].time)]
            ELSE [found |-> FALSE, time |-> RInt(0)]
    IN  Crossing(lineSegmentIntersection(
            lapData[i].lon, lapData[i].lat, lapData[i + 1].lon, lapData[i + 1].lat,
            border.startLon, border.startLat, border.endLon, border.endLat))

\* The interpolated crossing on the pair (i, i+1), or found = FALSE.
pairCrossing(lapData, border, i) ==
    LET point1 == lapData[i]
        point2 == lapData[i + 1]
        Within(preciseCrossingTime) ==
            IF /\ RLeq(RInt(point1.time), preciseCrossingTime)
               /\ RLeq(preciseCrossingTime, RInt(point2.time))
            THEN [found |-> TRUE, time |-> preciseCrossingTime]
            ELSE [found |-> FALSE, time |-> RInt(0)]
        Crossing(intersection) ==
            IF intersection.found
            THEN Within(RAdd(RInt(point1.time),
                             RMul(intersection.t,
                                  RInt(point2.time - point1.time))))
            ELSE [found |-> FALSE, time |-> RInt(0)]
    IN  Crossing(lineSegmentIntersection(
            point1.lon, point1.lat, point2.lon, point2.lat,
            border.startLon, border.startLat, border.endLon, border.endLat))

\* A crossing loop that runs to the end and keeps the last crossing it met.
lastCrossing(lapData, border) ==
    LET Last(crossings) ==
            LET hits == {i \in DOMAIN crossings : crossings[i].found}
            IN  IF hits = {} THEN [found |-> FALSE, time |-> RInt(0)]
                ELSE crossings[CHOOSE i \in hits : \A j \in hits : i >= j]
    IN  Last([i \in 1..(Len(lapData) - 1) |-> pairCrossing(lapData, border, i)])

\* The crossing loop returns at the first pair of consecutive samples whose
\* segment meets the border.
firstCrossing(lapData, border) ==
    LET First(crossings) ==
            LET hits == {i \in DOMAIN crossings : crossings[i].found}
            IN  IF hits = {} THEN [found |-> FALSE, time |-> RInt(0)]
                ELSE crossings[CHOOSE i \in hits : \A j \in hits : i <= j]
    IN  First([i \in 1..(Len(lapData) - 1) |-> pairCrossing(lapData, border, i)])

\* findBorderCrossing(lapData, border), lapData non-empty.
findBorderCrossing(lapData, border) ==
    LET Result(c) ==
            IF c.found THEN c.time
            ELSE RInt(lapData[closestPointIndex(lapData, border)].time)
    IN  Result(firstCrossing(lapData, border))

(***************************************************************************)
(* Nearest-sample search with early exit.                                  *)
(***************************************************************************)
\* The loop shared by updateTelemetryDisplay and createSectorBorders: start
\* at the first sample, advance while the distance strictly decreases, stop
\* at the first sample that is not strictly closer.  Indices are 1-based.
RECURSIVE closestIndexFrom(_, _, _, _)
closestIndexFrom(data, t, i, closestIndex) ==
    IF i > Len(data) THEN closestIndex
    ELSE IF Abs(data[i].time - t) < Abs(data[closestIndex].time - t)
         THEN closestIndexFrom(data, t, i + 1, i)
         ELSE closestIndex

closestIndexSearch(data, t) == closestIndexFrom(data, t, 2, 1)

(***************************************************************************)
(* Gate geometry.                                                          *)
(***************************************************************************)
\* Math.sqrt(a*a + b*b); exact whenever the sum is a perfect square, which
\* holds for every direction the inputs produce (axis-aligned or 3-4-5).
vectorLength(a, b) ==
    LET q == a * a + b * b
    IN  CHOOSE s \in Max2(Abs(a), Abs(b))..(Abs(a) + Abs(b)) :
            s * s <= q /\ (s + 1) * (s + 1) > q

\* Math.cos / Math.sin of a heading in degrees (multiples of 90).
cosDeg(h) == CASE h % 360 = 0 -> 1 [] h % 360 = 180 -> -1 [] OTHER -> 0

sinDeg(h) == CASE h % 360 = 90 -> 1 [] h % 360 = 270 -> -1 [] OTHER -> 0

\* createPerpendicularLine(centerPoint, lapData, centerIndex), 1-based index.
createPerpendicularLine(centerPoint, lapData, centerIndex) ==
    LET lookAhead == Min2(MaxLook, Len(lapData) - centerIndex)
        lookBehind == Min2(MaxLook, centerIndex - 1)
        useWindow == lookAhead > 0 /\ lookBehind > 0
        beforePoint == lapData[centerIndex - lookBehind]
        afterPoint == lapData[centerIndex + lookAhead]
        \* the +-1 fallback has the same guard as the window and never runs
        vLat == IF useWindow THEN afterPoint.lat - beforePoint.lat
                ELSE cosDeg(centerPoint.heading)
        vLon == IF useWindow THEN afterPoint.lon - beforePoint.lon
                ELSE sinDeg(centerPoint.heading)
        trajectoryLength == vectorLength(vLat, vLon)
        \* perpVector = (-lon, lat) of the normalised vector, times lineLength
        perpLat == IF trajectoryLength > 0
                   THEN (-(vLon) * lineLength) \div trajectoryLength
                   ELSE -(vLon) * lineLength
        perpLon == IF trajectoryLength > 0
                   THEN (vLat * lineLength) \div trajectoryLength
                   ELSE vLat * lineLength
    IN  [time |-> centerPoint.time,
         centerLat |-> centerPoint.lat,
         centerLon |-> centerPoint.lon,
         startLat |-> centerPoint.lat - perpLat,
         startLon |-> centerPoint.lon - perpLon,
         endLat |-> centerPoint.lat + perpLat,
         endLon |-> centerPoint.lon + perpLon]

(***************************************************************************)
(* Sector segmentation of the reference lap.                               *)
(***************************************************************************)
\* (current.speed - previous.speed) / timeDiff in km/h per second.
acceleration(current, previous) ==
    Rat(1000 * (current.speed - previous.speed), current.time - previous.time)

accelerationThreshold == Rat(-1, 2)

NoDecel == [open |-> FALSE, startTime |-> 0]

\* Step 1 of findAccelerationPeriods: one pass of the loop over consecutive
\* pairs.  The loop state is the index i, the open deceleration cur and the
\* periods closed so far.
decelStep(lapData, st) ==
    LET current == lapData[st.i]
        previous == lapData[st.i - 1]
        timeDiff == current.time - previous.time
        decel == RLess(acceleration(current, previous), accelerationThreshold)
        cur1 == IF decel /\ ~st.cur.open
                THEN [open |-> TRUE, startTime |-> previous.time]
                ELSE st.cur
        duration == current.time - cur1.startTime
    IN  IF timeDiff <= 0 THEN [st EXCEPT !.i = @ + 1]
        ELSE IF cur1.open /\ ~decel
             THEN [i |-> st.i + 1,
                   cur |-> NoDecel,
                   periods |-> IF duration >= MinDecelDuration
                               THEN Append(st.periods,
                                           [startTime |-> cur1.startTime,
                                            endTime |-> current.time,
                                            duration |-> duration])
                               ELSE st.periods]
             ELSE [st EXCEPT !.i = @ + 1, !.cur = cur1]

RECURSIVE decelWalk(_, _)
decelWalk(lapData, st) ==
    IF st.i > Len(lapData) THEN st ELSE decelWalk(lapData, decelStep(lapData, st))

\* Step 1 with the dangling episode held to the duration asked of a closed one.
decelerationPeriodsOneDuration(lapData) ==
    LET lastPoint == lapData[Len(lapData)]
        Closed(w) ==
            IF w.cur.open /\ lastPoint.time - w.cur.startTime >= MinDecelDuration
            THEN Append(w.periods, [startTime |-> w.cur.startTime,
                                    endTime |-> lastPoint.time,
                                    duration |-> lastPoint.time - w.cur.startTime])
            ELSE w.periods
    IN  Closed(decelWalk(lapData, [i |-> 2, cur |-> NoDecel, periods |-> <<>>]))

\* Step 1 complete: closed episodes plus the dangling one, if long enough.
decelerationPeriods(lapData) ==
    LET lastPoint == lapData[Len(lapData)]
        Closed(w) ==
            IF w.cur.open /\ lastPoint.time - w.cur.startTime >= DanglingDecelDuration
            THEN Append(w.periods, [startTime |-> w.cur.startTime,
                                    endTime |-> lastPoint.time,
                                    duration |-> lastPoint.time - w.cur.startTime])
            ELSE w.periods
    IN  Closed(decelWalk(lapData, [i |-> 2, cur |-> NoDecel, periods |-> <<>>]))

\* Step 2: sectors between deceleration periods, then the final sector.
RECURSIVE sectorsBetween(_, _, _, _)
sectorsBetween(decels, k, sectorStartTime, acc) ==
    IF k > Len(decels) THEN [sectors |-> acc, sectorStartTime |-> sectorStartTime]
    ELSE LET sectorEndTime == decels[k].startTime
             sectorDuration == sectorEndTime - sectorStartTime
         IN  sectorsBetween(decels, k + 1, decels[k].endTime,
                IF sectorDuration > 0
                THEN Append(acc, [startTime |-> sectorStartTime,
                                  endTime |-> sectorEndTime,
                                  duration |-> sectorDuration])
                ELSE acc)

provisionalSectors(lapData) ==
    LET finalSectorEndTime == lapData[Len(lapData)].time
        Final(b) ==
            IF finalSectorEndTime - b.sectorStartTime > 0
            THEN Append(b.sectors, [startTime |-> b.sectorStartTime,
                                    endTime |-> finalSectorEndTime,
                                    duration |-> finalSectorEndTime - b.sectorStartTime])
            ELSE b.sectors
    IN  Final(sectorsBetween(decelerationPeriods(lapData), 1, lapData[1].time, <<>>))

\* Step 3: merge sectors shorter than MinSectorDuration.  The code rewrites
\* sectors[i + 1] in place, so the list is threaded through the loop.
RECURSIVE mergeSectors(_, _, _)
mergeSectors(sectors, i, mergedSectors) ==
    IF i > Len(sectors) THEN mergedSectors
    ELSE LET sector == sectors[i]
             m == Len(mergedSectors)
         IN  IF sector.duration < MinSectorDuration
             THEN IF i = Len(sectors) /\ m > 0
                  THEN mergeSectors(sectors, i + 1,
                          [mergedSectors EXCEPT
                              ![m].endTime = sector.endTime,
                              ![m].duration = sector.endTime - mergedSectors[m].startTime])
                  ELSE IF i < Len(sectors)
                       THEN mergeSectors(
                              [sectors EXCEPT
                                  ![i + 1].startTime = sector.startTime,
                                  ![i + 1].duration = sectors[i + 1].endTime - sector.startTime],
                              i + 1, mergedSectors)
                       ELSE mergeSectors(sectors, i + 1, Append(mergedSectors, sector))
             ELSE mergeSectors(sectors, i + 1, Append(mergedSectors, sector))

\* findAccelerationPeriods without the merge pass.
findAccelerationPeriodsUnmerged(lapData) ==
    IF Len(lapData) < 2 THEN <<>> ELSE provisionalSectors(lapData)

\* findAccelerationPeriods(lapData): records [startTime, endTime, duration].
findAccelerationPeriods(lapData) ==
    IF Len(lapData) < 2 THEN <<>>
    ELSE mergeSectors(provisionalSectors(lapData), 1, <<>>)

\* borders.sort((a, b) => a.time - b.time): stable insertion by time.
RECURSIVE insertByTime(_, _)
insertByTime(sorted, b) ==
    IF sorted = <<>> THEN <<b>>
    ELSE IF sorted[Len(sorted)].time <= b.time THEN Append(sorted, b)
         ELSE Append(insertByTime(SubSeq(sorted, 1, Len(sorted) - 1), b),
                     sorted[Len(sorted)])

RECURSIVE sortByTime(_)
sortByTime(borders) ==
    IF borders = <<>> THEN <<>>
    ELSE insertByTime(sortByTime(SubSeq(borders, 1, Len(borders) - 1)),
                      borders[Len(borders)])

RECURSIVE bordersFrom(_, _, _, _)
bordersFrom(lapData, accelerationPeriods, i, borders) ==
    IF i > Len(accelerationPeriods) THEN borders
    ELSE LET borderTime == accelerationPeriods[i].endTime - BorderLead
             lapEndTime == lapData[Len(lapData)].time
             timeToLapEnd == lapEndTime - borderTime
             closestIndex == closestIndexSearch(lapData, borderTime)
         IN  IF timeToLapEnd < MinFinalSector
             THEN bordersFrom(lapData, accelerationPeriods, i + 1, borders)
             ELSE bordersFrom(lapData, accelerationPeriods, i + 1,
                     Append(borders,
                            createPerpendicularLine(lapData[closestIndex],
                                                    lapData, closestIndex)))

\* createSectorBorders aiming at the start of each period instead of its end.
createSectorBordersAtPeriodStarts(lapData, accelerationPeriods) ==
    sortByTime(bordersFrom(lapData,
                           [l \in 1..Len(accelerationPeriods) |->
                               [accelerationPeriods[l] EXCEPT
                                   !.endTime = accelerationPeriods[l].startTime]],
                           1, <<>>))

\* createSectorBorders(lapData, accelerationPeriods).
createSectorBorders(lapData, accelerationPeriods) ==
    sortByTime(bordersFrom(lapData, accelerationPeriods, 1, <<>>))

(***************************************************************************)
(* Lap indexing.  Lap indices are 0-based as in the code (0 is the         *)
(* out-lap); sequences are 1-based, so lap i is element i + 1.             *)
(***************************************************************************)
\* calculateLapStartTimes: [0], then the running sum for every lap but the last.
RECURSIVE lapStartsFrom(_, _, _, _)
lapStartsFrom(times, i, cumulativeTime, acc) ==
    IF i > Len(times) THEN acc
    ELSE lapStartsFrom(times, i + 1, cumulativeTime + times[i],
            IF i < Len(times) THEN Append(acc, cumulativeTime + times[i]) ELSE acc)

\* calculateLapStartTimes pushing each lap time instead of the running sum.
calculateLapStartTimesNoSum(times) ==
    [i \in 1..Max2(1, Len(times)) |-> IF i = 1 THEN 0 ELSE times[i - 1]]

calculateLapStartTimes(times) == lapStartsFrom(times, 1, 0, <<0>>)

\* The best-lap loop of generateSectorSplits (times non-empty).
RECURSIVE sectorBestFrom(_, _, _)
sectorBestFrom(times, i, best) ==
    IF i > Len(times) - 1 THEN best
    ELSE sectorBestFrom(times, i + 1,
            IF times[i + 1] < times[best + 1] THEN i ELSE best)

sectorBestLap(times) ==
    LET first == IF Len(times) > 1 THEN 1 ELSE 0
    IN  sectorBestFrom(times, first + 1, first)

\* findBestLapIndex: -1 without lap times, else the same loop.
RECURSIVE bestLapFrom(_, _, _)
bestLapFrom(times, i, bestLapIdx) ==
    IF i > Len(times) - 1 THEN bestLapIdx
    ELSE bestLapFrom(times, i + 1,
            IF times[i + 1] < times[bestLapIdx + 1] THEN i ELSE bestLapIdx)

\* findBestLapIndex with the out-lap taking part in the comparison.
findBestLapIndexFromOutLap(times) ==
    IF Len(times) = 0 THEN -1 ELSE bestLapFrom(times, 1, 0)

findBestLapIndex(times) ==
    IF Len(times) = 0 THEN -1
    ELSE LET first == IF Len(times) > 1 THEN 1 ELSE 0
         IN  bestLapFrom(times, first + 1, first)

\* lapEndTime as every per-lap routine computes it.
lapEndTimeOf(s, lapIndex) ==
    IF lapIndex < Len(s.lapStartTimes) - 1
    THEN s.lapStartTimes[lapIndex + 2]
    ELSE s.lapStartTimes[lapIndex + 1] + s.lapTimes[lapIndex + 1]

\* point.time >= lapStartTime && point.time <= lapEndTime
inLapWindow(s, lapIndex, point) ==
    /\ point.time >= s.lapStartTimes[lapIndex + 1]
    /\ point.time <= lapEndTimeOf(s, lapIndex)

\* telemetryData.filter(...) for one lap.
lapDataOf(s, lapIndex) ==
    SelectSeq(s.telemetryData, LAMBDA point : inLapWindow(s, lapIndex, point))

(***************************************************************************)
(* Per-lap sector timing.                                                  *)
(***************************************************************************)
RECURSIVE sectorWalk(_, _, _, _, _)
sectorWalk(lapData, borders, k, sectorStartTime, sectorTimes) ==
    IF k > Len(borders)
    THEN [sectorTimes |-> sectorTimes, sectorStartTime |-> sectorStartTime]
    ELSE LET Cross(crossingTime) ==
                 IF RLess(sectorStartTime, crossingTime)
                 THEN sectorWalk(lapData, borders, k + 1, crossingTime,
                                 Append(sectorTimes,
                                        RSub(crossingTime, sectorStartTime)))
                 ELSE sectorWalk(lapData, borders, k + 1, sectorStartTime,
                                 sectorTimes)
         IN  Cross(findBorderCrossing(lapData, borders[k]))

\* calculateLapSectorTimes without the final sector.
calculateLapSectorTimesToLastGate(s, lapIndex) ==
    LET lapStartTime == s.lapStartTimes[lapIndex + 1]
        Timed(lapData) ==
            IF Len(lapData) = 0 \/ Len(s.sectorBorders) = 0
            THEN <<RInt(s.lapTimes[lapIndex + 1])>>
            ELSE sectorWalk(lapData, s.sectorBorders, 1,
                            RInt(lapStartTime), <<>>).sectorTimes
    IN  Timed(lapDataOf(s, lapIndex))

\* calculateLapSectorTimes(lapIndex): a sequence of rationals.
calculateLapSectorTimes(s, lapIndex) ==
    LET lapStartTime == s.lapStartTimes[lapIndex + 1]
        lapEndTime == lapEndTimeOf(s, lapIndex)
        Final(w) ==
            IF RLess(w.sectorStartTime, RInt(lapEndTime))
            THEN Append(w.sectorTimes, RSub(RInt(lapEndTime), w.sectorStartTime))
            ELSE w.sectorTimes
        Timed(lapData) ==
            IF Len(lapData) = 0 \/ Len(s.sectorBorders) = 0
            THEN <<RInt(s.lapTimes[lapIndex + 1])>>
            ELSE Final(sectorWalk(lapData, s.sectorBorders, 1,
                                  RInt(lapStartTime), <<>>))
    IN  Timed(lapDataOf(s, lapIndex))

\* calculateAllLapSectorTimes
calculateAllLapSectorTimes(s) ==
    [i \in 1..Len(s.lapTimes) |-> calculateLapSectorTimes(s, i - 1)]

\* generateSectorSplits: the analyzer record after the call.
generateSectorSplits(s) ==
    IF Len(s.lapTimes) = 0 \/ Len(s.telemetryData) = 0 THEN s
    ELSE IF ~\E i \in 1..Len(s.telemetryData) :
                s.telemetryData[i].lat # 0 /\ s.telemetryData[i].lon # 0
    THEN [s EXCEPT !.csvInfo = "warnNoGps", !.warnings = Append(@, "warnNoGps")]
    ELSE LET Timed(s1) ==
                 [s1 EXCEPT !.lapSectorTimes = calculateAllLapSectorTimes(s1)]
             Bordered(s0, lapData, accelerationPeriods) ==
                 IF Len(accelerationPeriods) = 0
                 THEN [s0 EXCEPT !.csvInfo = "warnNoAcceleration",
                                 !.warnings = Append(@, "warnNoAcceleration")]
                 ELSE Timed([s0 EXCEPT !.sectorBorders =
                                createSectorBorders(lapData, accelerationPeriods)])
             Segmented(s0, lapData) ==
                 IF Len(lapData) = 0
                 THEN [s0 EXCEPT !.csvInfo = "warnNoBestLapData",
                                 !.warnings = Append(@, "warnNoBestLapData")]
                 ELSE Bordered(s0, lapData, findAccelerationPeriods(lapData))
             Chosen(bestLapIdx) ==
                 Segmented([s EXCEPT !.sectorBestLapIndex = bestLapIdx],
                           lapDataOf(s, bestLapIdx))
         IN  Chosen(sectorBestLap(s.lapTimes))

(***************************************************************************)
(* Diff to best lap.  A diff is null, undefined (read past the end of the  *)
(* array) or a number in milliseconds.                                     *)
(***************************************************************************)
DiffNull == [kind |-> "null", v |-> RInt(0)]

DiffUndefined == [kind |-> "undefined", v |-> RInt(0)]

DiffNum(r) == [kind |-> "num", v |-> r]

NoTime == [found |-> FALSE, time |-> RInt(0)]

\* Array.findIndex, given the set of indices that satisfy the test: the least
\* of them, 0 when there is none.
findIndex(matching) ==
    IF matching = {} THEN 0 ELSE CHOOSE k \in matching : \A j \in matching : k <= j

\* const currentPointIndex = this.bestLapData.findIndex(...): the first
\* sample of the best lap less than 1.0 s from the aligned time, 1-based, 0
\* when there is none.
currentPointIndex(s, currentLapProgress) ==
    LET Within(target) ==
            findIndex({k \in 1..Len(s.bestLapData) :
                          Abs(s.bestLapData[k].time - target) < AnchorWindow})
    IN  Within(s.lapStartTimes[s.bestLapIndex + 1] + currentLapProgress)

\* findCorrespondingTimeInBestLap(currentPoint, currentLapProgress)
findCorrespondingTimeInBestLap(s, currentPoint, currentLapProgress) ==
    LET Anchored(anchor) ==
            IF anchor = 0 THEN NoTime
            ELSE [found |-> TRUE,
                  time |-> findBorderCrossing(s.bestLapData,
                              createPerpendicularLine(currentPoint, s.bestLapData,
                                                      anchor))]
    IN  IF currentPoint.lat = 0 \/ currentPoint.lon = 0 \/ Len(s.bestLapData) = 0
        THEN NoTime
        ELSE Anchored(currentPointIndex(s, currentLapProgress))

\* The diff calculateLapDiffToBest computes for one sample of the current lap.
lapPointDiff(s, lapStartTime, currentPoint) ==
    LET currentLapProgress == currentPoint.time - lapStartTime
        Diff(corresponding) ==
            [found |-> corresponding.found,
             diff |-> RSub(RInt(currentLapProgress),
                           RSub(corresponding.time,
                                RInt(s.lapStartTimes[s.bestLapIndex + 1])))]
    IN  Diff(findCorrespondingTimeInBestLap(s, currentPoint, currentLapProgress))

\* calculateLapDiffToBest(lapIndex): the diff array after the call.  The loop
\* visits the lap's samples in order and writes each diff at telemetryIndex,
\* the first sample of the session with the same time (the 0.001 s test is
\* equality of milliseconds): an index keeps the write of the last sample of
\* the lap that resolves to it, and its old value when there is none.
calculateLapDiffToBest(s, lapIndex, diffs) ==
    LET lapStartTime == s.lapStartTimes[lapIndex + 1]
        telemetryIndex(currentPoint) == findIndex({k \in 1..Len(s.telemetryData) :
            s.telemetryData[k].time = currentPoint.time})
        Written(currentLapData, pointDiffs) ==
            LET writers(ti) == {i \in 1..Len(currentLapData) :
                    /\ currentLapData[i].time = s.telemetryData[ti].time
                    /\ telemetryIndex(currentLapData[i]) = ti
                    /\ pointDiffs[i].found}
                Last(w, ti) ==
                    IF w = {} THEN diffs[ti]
                    ELSE DiffNum(pointDiffs[CHOOSE i \in w :
                                               \A j \in w : j <= i].diff)
            IN  [ti \in 1..Len(diffs) |-> Last(writers(ti), ti)]
        Looped(currentLapData) ==
            IF Len(currentLapData) = 0 \/ Len(s.bestLapData) = 0 THEN diffs
            ELSE Written(currentLapData,
                         [i \in 1..Len(currentLapData) |->
                             lapPointDiff(s, lapStartTime, currentLapData[i])])
    IN  Looped(lapDataOf(s, lapIndex))

\* The per-lap loop of calculateDiffToBestLap, laps in index order.
RECURSIVE diffLapLoop(_, _, _)
diffLapLoop(s, lapIndex, diffs) ==
    IF lapIndex >= Len(s.lapTimes) THEN diffs
    ELSE IF lapIndex = s.bestLapIndex
         THEN diffLapLoop(s, lapIndex + 1,
                [i \in 1..Len(diffs) |->
                    IF inLapWindow(s, lapIndex, s.telemetryData[i])
                    THEN DiffNum(RInt(0)) ELSE diffs[i]])
         ELSE diffLapLoop(s, lapIndex + 1, calculateLapDiffToBest(s, lapIndex, diffs))

\* calculateDiffToBestLap: the analyzer record after the call.
calculateDiffToBestLap(s) ==
    IF Len(s.lapTimes) = 0 \/ Len(s.telemetryData) = 0 THEN s
    ELSE LET Diffed(s2) ==
                 [s2 EXCEPT !.diffToBestData =
                     diffLapLoop(s2, 0, [i \in 1..Len(s2.telemetryData) |-> DiffNull])]
             Selected(s1) ==
                 Diffed([s1 EXCEPT !.bestLapData = lapDataOf(s1, s1.bestLapIndex)])
         IN  Selected([s EXCEPT !.bestLapIndex = findBestLapIndex(s.lapTimes)])

\* formatDiffTime: the sign and the absolute value with three decimals.
formatDiffTime(d) ==
    IF d.kind # "num" THEN [sign |-> "+", ms |-> 0]
    ELSE [sign |-> IF d.v.n >= 0 THEN "+" ELSE "",
          ms |-> RRound(Rat(Abs(d.v.n), d.v.d))]

\* The colour updateTelemetryDisplay gives the diff value.
diffColor(d) ==
    IF d.kind # "num" THEN "grey"
    ELSE IF d.v.n > 0 THEN "red" ELSE IF d.v.n < 0 THEN "green" ELSE "blue"

(***************************************************************************)
(* CSV parsing.  A file is a record: whether a "Segment Times" row precedes*)
(* the header and its lap times, how the header row resolves, and the data *)
(* rows with their fields already split.                                   *)
(***************************************************************************)
\* values.length > maxIndex && !isNaN(time) && !isNaN(speed)
rowAccepted(row, maxIndex) == row.fields > maxIndex /\ row.timeOk /\ row.speedOk

toSample(row) == [time |-> row.time, speed |-> row.speed, lat |-> row.lat,
                  lon |-> row.lon, heading |-> row.heading]

\* The row loop followed by a sort of the samples by time.
acceptedRowsSortedByTime(rows, maxIndex) ==
    LET Pushed(kept) == [i \in 1..Len(kept) |-> toSample(kept[i])]
    IN  sortByTime(Pushed(SelectSeq(rows, LAMBDA row : rowAccepted(row, maxIndex))))

acceptedRows(rows, maxIndex) ==
    LET Pushed(kept) == [i \in 1..Len(kept) |-> toSample(kept[i])]
    IN  Pushed(SelectSeq(rows, LAMBDA row : rowAccepted(row, maxIndex)))

\* parseCsvData(csvText): the analyzer record when the call returns or throws.
parseCsvData(s, csv) ==
    LET s1 == IF csv.hasSegmentTimes THEN [s EXCEPT !.lapTimes = csv.segmentTimes]
              ELSE s
        s2 == [s1 EXCEPT !.telemetryData = acceptedRows(csv.rows, csv.maxIndex)]
        s3 == [s2 EXCEPT !.lapStartTimes = calculateLapStartTimes(s2.lapTimes)]
    IN  IF csv.header # "ok" THEN [s1 EXCEPT !.threw = TRUE]
        ELSE calculateDiffToBestLap(generateSectorSplits(s3))

(***************************************************************************)
(* TelemetryCSVParser, the parser of the upload page.  It reads the        *)
(* columns by position and needs at least 15 values on a data line.        *)
(***************************************************************************)
MinValues == 15

\* A line that is not a data row, with the given number of values: none of
\* its values parses as a number.
textLine(n) ==
    [time |-> 0, speed |-> 0, lat |-> 0, lon |-> 0, heading |-> 0,
     timeOk |-> FALSE, speedOk |-> FALSE, fields |-> n]

\* csvText.split('\n').map(trim).filter(line => line): the "Segment Times"
\* row, the header row and the units row when present, then the data rows.
fileLines(csv) ==
    (IF csv.hasSegmentTimes THEN <<textLine(1 + Len(csv.segmentTimes))>> ELSE <<>>)
    \o (IF csv.header # "none" THEN <<textLine(MinValues), textLine(MinValues)>>
        ELSE <<>>)
    \o csv.rows

\* findDataStartIndex(lines): the number of lines before the data section.
\* Only a header row that starts with "Time" is recognised.
findDataStartIndex(csv) ==
    IF csv.header # "none" /\ csv.headerLeads
    THEN (IF csv.hasSegmentTimes THEN 1 ELSE 0) + 2
    ELSE 0

\* parseFloat(value) || 0 on the time and speed values of a line.
toDataPoint(line) ==
    [time |-> IF line.timeOk THEN line.time ELSE 0,
     speed |-> IF line.speedOk THEN line.speed ELSE 0,
     lat |-> line.lat, lon |-> line.lon, heading |-> line.heading]

\* parseTelemetryData(dataLines)
parseTelemetryData(dataLines) ==
    LET Pushed(kept) == [i \in 1..Len(kept) |-> toDataPoint(kept[i])]
    IN  Pushed(SelectSeq(dataLines, LAMBDA line : line.fields >= MinValues))

\* The loop of splitIntoLaps over the beacon markers.
RECURSIVE beaconLaps(_, _, _, _, _)
beaconLaps(data, beaconMarkers, i, previousTime, laps) ==
    IF i > Len(beaconMarkers) THEN [laps |-> laps, previousTime |-> previousTime]
    ELSE beaconLaps(data, beaconMarkers, i + 1, beaconMarkers[i],
            Append(laps,
                   [lapIndex |-> i,
                    lapTime |-> beaconMarkers[i] - previousTime,
                    telemetryData |->
                        SelectSeq(data, LAMBDA point :
                            point.time >= previousTime
                            /\ point.time < beaconMarkers[i])]))

\* splitIntoLaps without the lap for the data after the last marker.
splitIntoLapsToLastMarker(data, beaconMarkers) ==
    IF Len(beaconMarkers) = 0
    THEN <<[lapIndex |-> 1,
            lapTime |-> IF Len(data) > 0 THEN data[Len(data)].time ELSE 0,
            telemetryData |-> data]>>
    ELSE beaconLaps(data, beaconMarkers, 1, 0, <<>>).laps

\* splitIntoLaps(telemetryData, beaconMarkers); no markers is <<>>.
splitIntoLaps(data, beaconMarkers) ==
    IF Len(beaconMarkers) = 0
    THEN <<[lapIndex |-> 1,
            lapTime |-> IF Len(data) > 0 THEN data[Len(data)].time ELSE 0,
            telemetryData |-> data]>>
    ELSE LET Remaining(b, remainingData) ==
                 IF Len(remainingData) > 0
                 THEN Append(b.laps,
                             [lapIndex |-> Len(b.laps) + 1,
                              lapTime |-> remainingData[Len(remainingData)].time
                                          - b.previousTime,
                              telemetryData |-> remainingData])
                 ELSE b.laps
             Final(b) ==
                 Remaining(b, SelectSeq(data, LAMBDA point :
                                  point.time >= b.previousTime))
         IN  Final(beaconLaps(data, beaconMarkers, 1, 0, <<>>))

\* parseCSV(csvText): the session it returns; no path of it throws.
parseCSV(csv) ==
    LET lines == fileLines(csv)
    IN  [threw |-> FALSE,
         laps |-> splitIntoLaps(
                     parseTelemetryData(
                         SubSeq(lines, findDataStartIndex(csv) + 1, Len(lines))),
                     csv.beaconMarkers)]

(***************************************************************************)
(* Input files.  A lap profile is a lap time and the data rows logged      *)
(* during the lap, with times relative to the lap start.  The circuit has  *)
(* a straight along latitude 200 from longitude 100 to 400 and a return   *)
(* leg through (400, 250).                                                 *)
(***************************************************************************)
MaxLaps == 3

Row(t, v, la, lo, h) ==
    [time |-> t, speed |-> v, lat |-> la, lon |-> lo, heading |-> h,
     timeOk |-> TRUE, speedOk |-> TRUE, fields |-> 15]

\* A clean lap on the racing line, one sample per 20 micro-degrees: braking
\* after 5 s and after 12 s.
ProfileR ==
    [lapTime |-> 19000,
     rows |-> << Row(0, 100, 200, 100, 90),     Row(1000, 100, 200, 120, 90),
                 Row(2000, 100, 200, 140, 90),  Row(3000, 100, 200, 160, 90),
                 Row(4000, 100, 200, 180, 90),  Row(5000, 100, 200, 200, 90),
                 Row(6000, 80, 200, 220, 90),   Row(7000, 80, 200, 240, 90),
                 Row(9000, 80, 200, 260, 90),   Row(11000, 80, 200, 280, 90),
                 Row(12000, 80, 200, 300, 90),  Row(13000, 60, 200, 320, 90),
                 Row(14000, 60, 200, 340, 90),  Row(15000, 60, 200, 360, 90),
                 Row(16000, 60, 200, 380, 90),  Row(17000, 60, 200, 400, 90),
                 Row(18000, 60, 400, 250, 270) >>]

\* A slower lap on the racing line, sparsely logged, first sample on the
\* lap boundary.
ProfileS ==
    [lapTime |-> 20000,
     rows |-> << Row(0, 90, 200, 104, 90),      Row(5500, 90, 200, 190, 90),
                 Row(6500, 70, 200, 220, 90),   Row(11000, 70, 200, 280, 90),
                 Row(14000, 50, 200, 340, 90),  Row(17500, 50, 200, 400, 90),
                 Row(19000, 50, 400, 250, 270) >>]

\* A lap on a wide line (latitude 300) that never touches a gate.
ProfileW ==
    [lapTime |-> 21000,
     rows |-> << Row(500, 90, 300, 100, 90),    Row(6000, 90, 300, 200, 90),
                 Row(9000, 70, 300, 260, 90),   Row(13500, 70, 300, 300, 90),
                 Row(17000, 50, 300, 400, 90),  Row(19500, 50, 400, 250, 270) >>]

\* A lap logged without a GPS fix.
ProfileD ==
    [lapTime |-> 22000,
     rows |-> << Row(0, 80, 0, 0, 0), Row(8000, 60, 0, 0, 0), Row(16000, 70, 0, 0, 0) >>]

\* A lap with no data rows at all.
ProfileE == [lapTime |-> 15000, rows |-> <<>>]

\* A short out-lap from the pit lane; no GPS fix on its first sample.
ProfileO ==
    [lapTime |-> 10000,
     rows |-> << Row(0, 0, 0, 0, 0), Row(4000, 40, 240, 140, 180),
                 Row(8000, 60, 220, 120, 90) >>]

\* A lap whose log has damaged rows: a row without a time, a row without a
\* speed, a row cut short after its speed, and two rows out of time order.
ProfileM ==
    [lapTime |-> 20000,
     rows |-> << Row(0, 50, 200, 100, 90),
                 [Row(0, 50, 200, 120, 90) EXCEPT !.timeOk = FALSE],
                 [Row(2000, 0, 200, 140, 90) EXCEPT !.speedOk = FALSE],
                 [Row(3000, 50, 0, 0, 0) EXCEPT !.fields = 2],
                 Row(6000, 50, 200, 200, 90),
                 Row(4000, 50, 200, 160, 90),
                 Row(9000, 40, 200, 260, 90) >>]

\* A slower lap on the racing line whose samples fall between the seconds.
ProfileL ==
    [lapTime |-> 20500,
     rows |-> << Row(700, 90, 200, 114, 90), Row(5700, 90, 200, 214, 90),
                 Row(12300, 70, 200, 306, 90) >>]

Profiles == {ProfileR, ProfileS, ProfileW, ProfileD, ProfileE, ProfileO}

shiftRows(rows, start) == [i \in 1..Len(rows) |-> [rows[i] EXCEPT !.time = @ + start]]

RECURSIVE rowsOfLaps(_, _)
rowsOfLaps(profiles, start) ==
    IF profiles = <<>> THEN <<>>
    ELSE shiftRows(Head(profiles).rows, start)
         \o rowsOfLaps(Tail(profiles), start + Head(profiles).lapTime)

\* The file a logger writes for a session of the given laps.
LapFile(profiles) ==
    [hasSegmentTimes |-> TRUE,
     segmentTimes |-> [i \in 1..Len(profiles) |-> profiles[i].lapTime],
     header |-> "ok",
     headerLeads |-> TRUE,
     maxIndex |-> 13,
     beaconMarkers |-> <<>>,
     rows |-> rowsOfLaps(profiles, 0)]

ProfileSeqs(n) == UNION {[1..k -> Profiles] : k \in 1..n}

\* Every session of at most MaxLaps laps.
SessionFiles == {LapFile(p) : p \in ProfileSeqs(MaxLaps)}

\* Files that differ in structure: no header row, a header row whose columns
\* do not resolve, no "Segment Times" row, an out-lap followed by three
\* timed laps that were not logged (lap times 10.000, 62.345, 61.998, 63.102),
\* a log with damaged rows, a lap logged between the seconds of the best lap
\* and a log with a "Beacon Markers" row.
StructureFiles ==
    { [LapFile(<<ProfileO>>) EXCEPT !.segmentTimes = <<10000, 62345, 61998, 63102>>],
      LapFile(<<ProfileO, ProfileM>>),
      LapFile(<<ProfileO, ProfileR, ProfileL>>),
      [LapFile(<<ProfileO, ProfileS>>) EXCEPT !.beaconMarkers = <<10000, 30000>>],
      [LapFile(<<ProfileO, ProfileS>>) EXCEPT !.header = "none"],
      [LapFile(<<ProfileR>>) EXCEPT !.header = "unresolved"],
      [LapFile(<<ProfileW>>) EXCEPT !.hasSegmentTimes = FALSE, !.segmentTimes = <<>>] }

\* The files the user picks from in the interactive specification: a session
\* of an out-lap and two timed laps, and a file without a header row.
AppCsvFiles ==
    { LapFile(<<ProfileO, ProfileS, ProfileW>>),
      [LapFile(<<ProfileO, ProfileS>>) EXCEPT !.header = "none"] }

\* The files the user picks from when files are loaded one after another.
LoadFiles ==
    { LapFile(<<ProfileO, ProfileR, ProfileS>>),
      LapFile(<<ProfileO, ProfileR, ProfileW>>),
      LapFile(<<ProfileD, ProfileD>>),
      LapFile(<<ProfileO, ProfileE>>),
      LapFile(<<ProfileS>>),
      [LapFile(<<ProfileD>>) EXCEPT !.rows = <<>>] } \cup StructureFiles

(***************************************************************************)
(* State of the analyzer, the video element and the page.                  *)
(***************************************************************************)
VARIABLES
    telemetryData,        \* accepted samples, in file order
    lapTimes,             \* lap times from the "Segment Times" row
    lapStartTimes,        \* cumulative lap start times
    sectorBorders,        \* gates derived from the reference lap
    lapSectorTimes,       \* sector times per lap
    bestLapData,          \* samples of the reference lap
    bestLapIndex,         \* -1 until a diff computation has run
    diffToBestData,       \* one diff per sample
    sectorBestLapIndex,   \* reference lap chosen by generateSectorSplits, -1 initially
    csvInfo,              \* the message shown in the CSV info box
    warnings,             \* warnings shown while the last file was parsed
    renderedLaps,         \* number of rows of the lap table
    csvText,              \* content of the last file read
    session,              \* what the upload page shows of the last file
    call,                 \* a routine called on its own: arguments and result
    syncOffset,           \* video time minus telemetry time, 0 = not synced
    selectedLapIndex,     \* lap the sync was established on, -1 initially
    videoDuration,        \* video.duration, 0 while no video is loaded
    videoCurrentTime,     \* video.currentTime
    videoPaused,          \* video.paused
    pendingSeek,          \* seek events not yet dispatched: none, seeking, seeked
    isHighFrequencyActive,
    animationFrameId,     \* null, pending (names a scheduled callback) or stale
    pendingFrames,        \* number of scheduled animation-frame callbacks
    wasHighFrequencyActiveBeforeSeeking,
    display               \* what the telemetry panel shows

dataVars == <<telemetryData, lapTimes, lapStartTimes, sectorBorders, lapSectorTimes,
              bestLapData, bestLapIndex, diffToBestData, sectorBestLapIndex,
              csvInfo, warnings, renderedLaps, csvText, session, call>>

syncVars == <<syncOffset, selectedLapIndex>>

videoVars == <<videoDuration, videoCurrentTime, videoPaused, pendingSeek>>

hfVars == <<isHighFrequencyActive, animationFrameId, pendingFrames,
            wasHighFrequencyActiveBeforeSeeking>>

vars == <<dataVars, syncVars, videoVars, hfVars, display>>

\* The analyzer's data fields as one record, the form the operators take.
This ==
    [telemetryData |-> telemetryData, lapTimes |-> lapTimes,
     lapStartTimes |-> lapStartTimes, sectorBorders |-> sectorBorders,
     lapSectorTimes |-> lapSectorTimes, bestLapData |-> bestLapData,
     bestLapIndex |-> bestLapIndex, diffToBestData |-> diffToBestData,
     sectorBestLapIndex |-> sectorBestLapIndex, csvInfo |-> csvInfo,
     warnings |-> warnings, threw |-> FALSE]

\* The constructor's values.
Fresh ==
    [telemetryData |-> <<>>, lapTimes |-> <<>>, lapStartTimes |-> <<>>,
     sectorBorders |-> <<>>, lapSectorTimes |-> <<>>, bestLapData |-> <<>>,
     bestLapIndex |-> -1, diffToBestData |-> <<>>, sectorBestLapIndex |-> -1,
     csvInfo |-> "none", warnings |-> <<>>, threw |-> FALSE]

SetThis(s) ==
    /\ telemetryData' = s.telemetryData
    /\ lapTimes' = s.lapTimes
    /\ lapStartTimes' = s.lapStartTimes
    /\ sectorBorders' = s.sectorBorders
    /\ lapSectorTimes' = s.lapSectorTimes
    /\ bestLapData' = s.bestLapData
    /\ bestLapIndex' = s.bestLapIndex
    /\ diffToBestData' = s.diffToBestData
    /\ sectorBestLapIndex' = s.sectorBestLapIndex
    /\ csvInfo' = s.csvInfo
    /\ warnings' = s.warnings

NoFile == [hasSegmentTimes |-> FALSE, segmentTimes |-> <<>>, header |-> "none",
           headerLeads |-> FALSE, maxIndex |-> 13, beaconMarkers |-> <<>>,
           rows |-> <<>>]

\* The upload page before a file was dropped on it.
NoSession == [shown |-> FALSE, threw |-> FALSE, laps |-> <<>>]

\* No routine is being called on its own.
NoCall == [routine |-> "none", args |-> <<>>, done |-> FALSE, result |-> RInt(0)]

Blank == [shown |-> FALSE, index |-> 0, speedValue |-> 0,
          diffValue |-> [sign |-> "+", ms |-> 0], diffColor |-> "grey"]

\* Bounds of the interactive specification: the video lengths, the times
\* the user seeks to and the times playback reports.
VideoDurations == {40000}

SeekTimes == {0, 10000}

PlayTimes == {10000, 30000}

MaxPendingFrames == 2

InitVideo ==
    /\ syncOffset = 0
    /\ selectedLapIndex = -1
    /\ videoDuration = 0
    /\ videoCurrentTime = 0
    /\ videoPaused = TRUE
    /\ pendingSeek = "none"
    /\ isHighFrequencyActive = FALSE
    /\ animationFrameId = "null"
    /\ pendingFrames = 0
    /\ wasHighFrequencyActiveBeforeSeeking = FALSE
    /\ display = Blank

InitData ==
    /\ telemetryData = <<>>
    /\ lapTimes = <<>>
    /\ lapStartTimes = <<>>
    /\ sectorBorders = <<>>
    /\ lapSectorTimes = <<>>
    /\ bestLapData = <<>>
    /\ bestLapIndex = -1
    /\ diffToBestData = <<>>
    /\ sectorBestLapIndex = -1
    /\ csvInfo = "none"
    /\ warnings = <<>>
    /\ renderedLaps = 0
    /\ session = NoSession

Init == InitData /\ InitVideo /\ csvText = NoFile /\ call = NoCall

(***************************************************************************)
(* Handlers.                                                               *)
(***************************************************************************)
\* updateTelemetryDisplay without the test of the offset.
updateTelemetryDisplayUnsynced(data, diffs, offset, currentTime, shownBefore) ==
    IF Len(data) = 0 THEN shownBefore
    ELSE LET closestIndex == closestIndexSearch(data, currentTime - offset)
             diffValue == IF closestIndex <= Len(diffs) THEN diffs[closestIndex]
                          ELSE DiffUndefined
         IN  [shown |-> TRUE, index |-> closestIndex,
              speedValue |-> data[closestIndex].speed,
              diffValue |-> formatDiffTime(diffValue),
              diffColor |-> diffColor(diffValue)]

\* updateTelemetryDisplay: the panel after the call.
updateTelemetryDisplay(data, diffs, offset, currentTime, shownBefore) ==
    IF Len(data) = 0 \/ offset = 0 THEN shownBefore
    ELSE LET telemetryTime == currentTime - offset
             closestIndex == closestIndexSearch(data, telemetryTime)
             diffValue == IF closestIndex <= Len(diffs) THEN diffs[closestIndex]
                          ELSE DiffUndefined
         IN  [shown |-> TRUE, index |-> closestIndex,
              speedValue |-> data[closestIndex].speed,
              diffValue |-> formatDiffTime(diffValue),
              diffColor |-> diffColor(diffValue)]

\* A call of updateTelemetryDisplay that also drops the sync offset when
\* there is no telemetry.
QueryResettingSync(currentTime) ==
    /\ display' = updateTelemetryDisplay(telemetryData, diffToBestData, syncOffset,
                                         currentTime, display)
    /\ syncOffset' = IF Len(telemetryData) = 0 THEN 0 ELSE syncOffset
    /\ UNCHANGED <<dataVars, selectedLapIndex>>

\* A call of updateTelemetryDisplay: it writes the panel and nothing else.
Query(currentTime) ==
    /\ display' = updateTelemetryDisplay(telemetryData, diffToBestData, syncOffset,
                                         currentTime, display)
    /\ UNCHANGED <<dataVars, syncVars>>

\* A handler's path that does not call updateTelemetryDisplay.
NoQuery == UNCHANGED <<display, dataVars, syncVars>>

\* reader.onload of handleCsvSelect for a .csv file with content f.
LoadCsv(f) ==
    \E r \in {parseCsvData([This EXCEPT !.warnings = <<>>], f)} :
        /\ csvText' = f
        /\ IF r.threw
           THEN /\ SetThis([r EXCEPT !.csvInfo = "parseError"])
                /\ UNCHANGED renderedLaps
           ELSE /\ SetThis([r EXCEPT !.csvInfo = "loaded"])
                /\ renderedLaps' = IF Len(r.lapTimes) > 0 THEN Len(r.lapTimes)
                                   ELSE renderedLaps
        /\ UNCHANGED <<session, call, syncVars, videoVars, hfVars, display>>

handleCsvSelect == \E f \in AppCsvFiles : LoadCsv(f)

\* handleCsvSelect when the file dialog is cancelled.
handleCsvSelectNone ==
    /\ telemetryData' = <<>>
    /\ lapTimes' = <<>>
    /\ csvInfo' = "none"
    /\ UNCHANGED <<lapStartTimes, sectorBorders, lapSectorTimes, bestLapData,
                   bestLapIndex, diffToBestData, sectorBestLapIndex, warnings,
                   renderedLaps, csvText, session, call>>
    /\ UNCHANGED <<syncVars, videoVars, hfVars, display>>

\* A video load that also forgets the synchronisation.
handleVideoLoadedResettingSync ==
    /\ \E d \in VideoDurations : videoDuration' = d
    /\ videoCurrentTime' = 0
    /\ videoPaused' = TRUE
    /\ pendingSeek' = "none"
    /\ syncOffset' = 0
    /\ selectedLapIndex' = -1
    /\ UNCHANGED <<dataVars, hfVars, display>>

\* handleFileSelect followed by the video's loadedmetadata event.
handleVideoLoaded ==
    /\ \E d \in VideoDurations : videoDuration' = d
    /\ videoCurrentTime' = 0
    /\ videoPaused' = TRUE
    /\ pendingSeek' = "none"
    /\ UNCHANGED <<dataVars, syncVars, hfVars, display>>

\* startHighFrequencyUpdates; the first highFrequencyUpdate runs inside it and
\* schedules the next animation frame.
startHighFrequencyUpdates(was) ==
    IF isHighFrequencyActive
    THEN /\ UNCHANGED <<isHighFrequencyActive, animationFrameId, pendingFrames>>
         /\ wasHighFrequencyActiveBeforeSeeking' = was
    ELSE /\ isHighFrequencyActive' = TRUE
         /\ animationFrameId' = "pending"
         /\ pendingFrames' = pendingFrames + 1
         /\ wasHighFrequencyActiveBeforeSeeking' = was

\* stopHighFrequencyUpdates without the cancelAnimationFrame call.
stopHighFrequencyUpdatesNoCancel(was) ==
    IF ~isHighFrequencyActive
    THEN /\ UNCHANGED <<isHighFrequencyActive, animationFrameId, pendingFrames>>
         /\ wasHighFrequencyActiveBeforeSeeking' = was
    ELSE /\ isHighFrequencyActive' = FALSE
         /\ animationFrameId' = "null"
         /\ pendingFrames' = pendingFrames
         /\ wasHighFrequencyActiveBeforeSeeking' = was

\* stopHighFrequencyUpdates
stopHighFrequencyUpdates(was) ==
    IF ~isHighFrequencyActive
    THEN /\ UNCHANGED <<isHighFrequencyActive, animationFrameId, pendingFrames>>
         /\ wasHighFrequencyActiveBeforeSeeking' = was
    ELSE /\ isHighFrequencyActive' = FALSE
         /\ animationFrameId' = "null"
         /\ pendingFrames' = IF animationFrameId = "pending"
                             THEN pendingFrames - 1 ELSE pendingFrames
         /\ wasHighFrequencyActiveBeforeSeeking' = was

\* The play event.
Play ==
    /\ videoDuration > 0 /\ videoPaused
    /\ pendingFrames < MaxPendingFrames
    /\ videoPaused' = FALSE
    /\ startHighFrequencyUpdates(wasHighFrequencyActiveBeforeSeeking)
    /\ UNCHANGED <<dataVars, syncVars, videoDuration, videoCurrentTime, pendingSeek,
                   display>>

\* The pause event.
Pause ==
    /\ ~videoPaused
    /\ videoPaused' = TRUE
    /\ stopHighFrequencyUpdates(wasHighFrequencyActiveBeforeSeeking)
    /\ UNCHANGED <<dataVars, syncVars, videoDuration, videoCurrentTime, pendingSeek,
                   display>>

\* handleTimeUpdate: playback has advanced, or the paused video reports its time.
handleTimeUpdate ==
    /\ videoDuration > 0
    /\ \E t \in PlayTimes \cup {videoCurrentTime} :
        /\ IF videoPaused THEN t = videoCurrentTime
           ELSE t > videoCurrentTime /\ t <= videoDuration
        /\ videoCurrentTime' = t
        /\ IF ~isHighFrequencyActive THEN Query(t) ELSE NoQuery
    /\ UNCHANGED <<videoDuration, videoPaused, pendingSeek, hfVars>>

\* highFrequencyUpdate run as an animation-frame callback; the callback that
\* runs is the one animationFrameId names, or an older one.
highFrequencyUpdate ==
    /\ pendingFrames > 0
    /\ \E named \in BOOLEAN, elapsed \in BOOLEAN :
        /\ named => animationFrameId = "pending"
        /\ ~named => (animationFrameId # "pending" \/ pendingFrames > 1)
        /\ IF ~isHighFrequencyActive
           THEN /\ pendingFrames' = pendingFrames - 1
                /\ animationFrameId' = IF named THEN "stale" ELSE animationFrameId
                /\ NoQuery
           ELSE /\ pendingFrames' = pendingFrames
                /\ animationFrameId' = "pending"
                /\ IF elapsed THEN Query(videoCurrentTime) ELSE NoQuery
    /\ UNCHANGED <<videoVars, isHighFrequencyActive,
                   wasHighFrequencyActiveBeforeSeeking>>

\* The user moves the playhead (scrubbing, previousFrame, nextFrame).
Seek ==
    /\ videoDuration > 0
    /\ \E t \in SeekTimes : t <= videoDuration /\ videoCurrentTime' = t
    /\ pendingSeek' = "seeking"
    /\ UNCHANGED <<dataVars, syncVars, videoDuration, videoPaused, hfVars, display>>

\* handleSeeking
handleSeeking ==
    /\ pendingSeek = "seeking"
    /\ pendingSeek' = "seeked"
    /\ IF isHighFrequencyActive
       THEN stopHighFrequencyUpdates(TRUE)
       ELSE UNCHANGED hfVars
    /\ UNCHANGED <<dataVars, syncVars, videoDuration, videoCurrentTime, videoPaused,
                   display>>

\* handleSeeked
handleSeeked ==
    /\ pendingSeek = "seeked"
    /\ pendingSeek' = "none"
    /\ IF wasHighFrequencyActiveBeforeSeeking /\ ~videoPaused
       THEN startHighFrequencyUpdates(FALSE)
       ELSE /\ wasHighFrequencyActiveBeforeSeeking' = FALSE
            /\ UNCHANGED <<isHighFrequencyActive, animationFrameId, pendingFrames>>
    /\ Query(videoCurrentTime)
    /\ UNCHANGED <<videoDuration, videoCurrentTime, videoPaused>>

\* Math.max(0, Math.min(video.duration, targetVideoTime))
clampToVideo(targetVideoTime) == Max2(0, Min2(videoDuration, targetVideoTime))

\* The lap rows the user can click: rendered rows with a start time.
LapRows == 0..(Min2(renderedLaps, Len(lapStartTimes)) - 1)

\* syncVideoToLapStart taking the video time itself as the offset.
syncVideoToLapStartNoLapStart(lapIndex) ==
    /\ videoDuration # 0 /\ Len(lapStartTimes) # 0
    /\ IF syncOffset # 0
       THEN /\ videoCurrentTime' = clampToVideo(lapStartTimes[lapIndex + 1] + syncOffset)
            /\ pendingSeek' = "seeking"
            /\ UNCHANGED syncVars
       ELSE /\ syncOffset' = videoCurrentTime
            /\ selectedLapIndex' = lapIndex
            /\ UNCHANGED <<videoCurrentTime, pendingSeek>>
    /\ UNCHANGED <<dataVars, videoDuration, videoPaused, hfVars, display>>

\* syncVideoToLapStart(lapIndex)
syncVideoToLapStart(lapIndex) ==
    /\ videoDuration # 0 /\ Len(lapStartTimes) # 0
    /\ LET lapStartTime == lapStartTimes[lapIndex + 1]
       IN  IF syncOffset # 0
           THEN /\ videoCurrentTime' = clampToVideo(lapStartTime + syncOffset)
                /\ pendingSeek' = "seeking"
                /\ UNCHANGED syncVars
           ELSE /\ syncOffset' = videoCurrentTime - lapStartTime
                /\ selectedLapIndex' = lapIndex
                /\ UNCHANGED <<videoCurrentTime, pendingSeek>>
    /\ UNCHANGED <<dataVars, videoDuration, videoPaused, hfVars, display>>

\* jumpToLapStart(lapIndex)
jumpToLapStart(lapIndex) ==
    /\ videoDuration # 0 /\ Len(lapStartTimes) # 0
    /\ syncOffset # 0
    /\ videoCurrentTime' = clampToVideo(lapStartTimes[lapIndex + 1] + syncOffset)
    /\ pendingSeek' = "seeking"
    /\ UNCHANGED <<dataVars, syncVars, videoDuration, videoPaused, hfVars, display>>

Next ==
    \/ handleCsvSelect
    \/ handleCsvSelectNone
    \/ handleVideoLoaded
    \/ Play
    \/ Pause
    \/ handleTimeUpdate
    \/ highFrequencyUpdate
    \/ Seek
    \/ handleSeeking
    \/ handleSeeked
    \/ \E lapIndex \in LapRows : syncVideoToLapStart(lapIndex)
    \/ \E lapIndex \in LapRows : jumpToLapStart(lapIndex)

Spec == Init /\ [][Next]_vars

(***************************************************************************)
(* Parsing one file with a newly constructed analyzer.                     *)
(***************************************************************************)
InitParse ==
    /\ InitData
    /\ InitVideo
    /\ csvText \in (SessionFiles \cup StructureFiles)
    /\ call = NoCall

\* reader.onload for the file that was selected.
readerOnload == csvInfo = "none" /\ LoadCsv(csvText)

\* handleFile of the upload page for the same file: displaySession, or the
\* alert when the parser throws.
handleFile ==
    /\ session = NoSession
    /\ \E r \in {parseCSV(csvText)} :
           session' = [shown |-> ~r.threw, threw |-> r.threw,
                       laps |-> IF r.threw THEN <<>> ELSE r.laps]
    /\ UNCHANGED <<telemetryData, lapTimes, lapStartTimes, sectorBorders,
                   lapSectorTimes, bestLapData, bestLapIndex, diffToBestData,
                   sectorBestLapIndex, csvInfo, warnings, renderedLaps, csvText,
                   call>>
    /\ UNCHANGED <<syncVars, videoVars, hfVars, display>>

NextParse == readerOnload \/ handleFile

SpecParse == InitParse /\ [][NextParse]_vars

(***************************************************************************)
(* Loading files one after another.  The CSV handlers read and write only  *)
(* the data fields, and no other handler writes them, so the data fields   *)
(* reachable here are those reachable with the other handlers interleaved. *)
(***************************************************************************)
handleCsvSelectAgain == \E f \in LoadFiles : LoadCsv(f)

NextLoads == handleCsvSelectAgain \/ handleCsvSelectNone

SpecLoads == Init /\ [][NextLoads]_vars

(***************************************************************************)
(* Scrubbing over logs whose time stamps repeat.  The logs have two laps   *)
(* of five seconds and no GPS fix; their samples are in ascending order of *)
(* time, as the logger writes them.                                        *)
(***************************************************************************)
MaxSamples == 3

SampleTimes == {0, 2000, 5000}

SortedTimes ==
    {ts \in UNION {[1..n -> SampleTimes] : n \in 1..MaxSamples} :
        \A i \in 1..(Len(ts) - 1) : ts[i] <= ts[i + 1]}

SearchFile(ts) ==
    [hasSegmentTimes |-> TRUE,
     segmentTimes |-> <<5000, 5000>>,
     header |-> "ok",
     headerLeads |-> TRUE,
     maxIndex |-> 13,
     beaconMarkers |-> <<>>,
     rows |-> [i \in 1..Len(ts) |-> Row(ts[i], 10 * i, 0, 0, 0)]]

SearchFiles == {SearchFile(ts) : ts \in SortedTimes}

handleCsvSelectLog == \E f \in SearchFiles : LoadCsv(f)

NextSearch ==
    \/ handleCsvSelectLog
    \/ handleVideoLoaded
    \/ Seek
    \/ handleSeeking
    \/ handleSeeked
    \/ \E lapIndex \in LapRows : syncVideoToLapStart(lapIndex)

SpecSearch == Init /\ [][NextSearch]_vars

(***************************************************************************)
(* findBorderCrossing on its own.  The lap is a track of one to MaxTrack   *)
(* samples on a grid of 20 micro-degrees in longitude and 40 in latitude,  *)
(* with times at growing intervals, in ascending order or with the first   *)
(* two exchanged (rows out of time order stay in file order); the gates    *)
(* are 80 micro-degrees long as createPerpendicularLine makes them, except *)
(* the last, a short gate off the grid that no track reaches.              *)
(***************************************************************************)
MaxTrack == 3

TrackPoints == {[lat |-> la, lon |-> lo] : la \in {180, 220, 260}, lo \in {100, 120, 140}}

\* 0, 1.0 s, 3.0 s, 6.0 s, ...
trackTime(i) == 500 * i * (i - 1)

Tracks == UNION {[1..n -> TrackPoints] : n \in 1..MaxTrack}

TrackClocks == {"ascending", "exchanged"}

trackClock(clock, i) ==
    IF clock = "exchanged" /\ i <= 2 THEN trackTime(3 - i) ELSE trackTime(i)

trackLapData(track, clock) ==
    [i \in 1..Len(track) |->
        [time |-> trackClock(clock, i), speed |-> 50, lat |-> track[i].lat,
         lon |-> track[i].lon, heading |-> 0]]

Gate(startLat, startLon, endLat, endLon) ==
    [time |-> 0,
     centerLat |-> (startLat + endLat) \div 2,
     centerLon |-> (startLon + endLon) \div 2,
     startLat |-> startLat, startLon |-> startLon,
     endLat |-> endLat, endLon |-> endLon]

\* Across the grid between two columns of samples; across the grid on a
\* column of samples; along the middle row of samples; off the grid.
Gates ==
    {Gate(180, 110, 260, 110), Gate(180, 120, 260, 120),
     Gate(220, 80, 220, 160), Gate(270, 150, 270, 170)}

InitCrossing ==
    /\ InitData
    /\ InitVideo
    /\ csvText = NoFile
    /\ \E track \in Tracks, clock \in TrackClocks, border \in Gates :
           call = [routine |-> "findBorderCrossing",
                   args |-> [lapData |-> trackLapData(track, clock),
                             border |-> border],
                   done |-> FALSE, result |-> RInt(0)]

findBorderCrossingCall ==
    /\ call.routine = "findBorderCrossing"
    /\ ~call.done
    /\ call' = [call EXCEPT !.done = TRUE,
                            !.result = findBorderCrossing(call.args.lapData,
                                                          call.args.border)]
    /\ UNCHANGED <<telemetryData, lapTimes, lapStartTimes, sectorBorders,
                   lapSectorTimes, bestLapData, bestLapIndex, diffToBestData,
                   sectorBestLapIndex, csvInfo, warnings, renderedLaps, csvText,
                   session>>
    /\ UNCHANGED <<syncVars, videoVars, hfVars, display>>

NextCrossing == findBorderCrossingCall

SpecCrossing == InitCrossing /\ [][NextCrossing]_vars

(***************************************************************************)
(* The two clock conversions on their own: the query turns the video time  *)
(* into a telemetry time, the jump turns a telemetry time into a video     *)
(* time.  The offset is the one a sync leaves: the video time at the sync  *)
(* minus the start time of the lap synced on, when that is not zero.       *)
(***************************************************************************)
\* video clock readings, in milliseconds
ClockTimes == {0, 500, 10000, 33367, 56316, 120120, 311306, 458265, 501459}

\* start times of the first timed lap, in milliseconds: the out lap's time
ClockLapStarts == {0, 62345, 146959}

ClockOffsets ==
    {numberDifference(numberOfMillis(v), numberOfMillis(s)) :
        v \in {10000, 40}, s \in ClockLapStarts} \ {Zero}

InitClock ==
    /\ InitData
    /\ InitVideo
    /\ csvText = NoFile
    /\ \E x \in ClockTimes, offset \in ClockOffsets :
           call = [routine |-> "updateTelemetryDisplay",
                   args |-> [currentTime |-> numberOfMillis(x),
                             lapStartTime |-> Zero,
                             syncOffset |-> offset],
                   done |-> FALSE, result |-> Zero]

CallOnly ==
    /\ UNCHANGED <<telemetryData, lapTimes, lapStartTimes, sectorBorders,
                   lapSectorTimes, bestLapData, bestLapIndex, diffToBestData,
                   sectorBestLapIndex, csvInfo, warnings, renderedLaps, csvText,
                   session>>
    /\ UNCHANGED <<syncVars, videoVars, hfVars, display>>

\* const telemetryTime = this.video.currentTime - this.syncOffset; the
\* telemetry time is then taken as the time to jump to.
telemetryTimeOfVideoTime ==
    /\ call.routine = "updateTelemetryDisplay"
    /\ call' = [call EXCEPT
                   !.routine = "jumpToLapStart",
                   !.args.lapStartTime =
                       numberDifference(call.args.currentTime, call.args.syncOffset)]
    /\ CallOnly

\* const targetVideoTime = lapStartTime + this.syncOffset
targetVideoTimeOfLapStart ==
    /\ call.routine = "jumpToLapStart"
    /\ ~call.done
    /\ call' = [call EXCEPT
                   !.done = TRUE,
                   !.result = numberSum(call.args.lapStartTime, call.args.syncOffset)]
    /\ CallOnly

NextClock == telemetryTimeOfVideoTime \/ targetVideoTimeOfLapStart

SpecClock == InitClock /\ [][NextClock]_vars

(***************************************************************************)
(* The segmentation of a reference lap on its own: the first half of       *)
(* generateSectorSplits, from the reference lap's samples to the gates.    *)
(* The lap is drawn as one to MaxSteps steps from a first sample; a step   *)
(* is the time to the next sample in milliseconds and the change of speed  *)
(* in km/h.  The samples lie 20 micro-degrees apart on a line heading      *)
(* east.                                                                   *)
(***************************************************************************)
MaxSteps == 4

Step(gap, change) == [gap |-> gap, change |-> change]

\* A long and a short stretch without braking; braking over half a second
\* and over a tenth; braking just under and exactly at the threshold of
\* -0.5 km/h per second; a row out of time order, its speed higher.
SegmentSteps ==
    {Step(6000, 0), Step(500, 10), Step(500, -10), Step(100, -10),
     Step(1900, -1), Step(2000, -1), Step(-500, 10)}

\* Longer laps: one to MaxStretches stretches without braking, of 3.0 s or
\* 6.0 s or stepping 6.0 s back in time, with half a second of braking and
\* half a second of acceleration between one stretch and the next.
MaxStretches == 3

Stretches == {Step(3000, 0), Step(6000, 0), Step(-6000, 0)}

stretchSteps(stretches) ==
    [j \in 1..(3 * Len(stretches) - 2) |->
        IF j % 3 = 1 THEN stretches[(j + 2) \div 3]
        ELSE IF j % 3 = 2 THEN Step(500, -10) ELSE Step(500, 10)]

StretchLaps ==
    {stretchSteps(stretches) :
        stretches \in UNION {[1..n -> Stretches] : n \in 1..MaxStretches}}

SegmentLaps == StretchLaps \cup UNION {[1..n -> SegmentSteps] : n \in 1..MaxSteps}

RECURSIVE stepPoint(_, _)
stepPoint(steps, i) ==
    IF i = 1
    THEN [time |-> 1000, speed |-> 100, lat |-> 200, lon |-> 100, heading |-> 90]
    ELSE LET Next1(previous) ==
                 [time |-> previous.time + steps[i - 1].gap,
                  speed |-> previous.speed + steps[i - 1].change,
                  lat |-> previous.lat, lon |-> previous.lon + 20,
                  heading |-> previous.heading]
         IN  Next1(stepPoint(steps, i - 1))

stepLapData(steps) == [i \in 1..(Len(steps) + 1) |-> stepPoint(steps, i)]

InitSegments ==
    /\ InitData
    /\ InitVideo
    /\ csvText = NoFile
    /\ \E steps \in SegmentLaps :
           call = [routine |-> "findAccelerationPeriods",
                   args |-> [lapData |-> stepLapData(steps)],
                   done |-> FALSE,
                   result |-> [decelPeriods |-> <<>>, sectors |-> <<>>,
                               accelerationPeriods |-> <<>>,
                               sectorBorders |-> <<>>]]

\* const accelerationPeriods = this.findAccelerationPeriods(lapData);
\* if (accelerationPeriods.length === 0) return;
findAccelerationPeriodsCall ==
    /\ call.routine = "findAccelerationPeriods"
    /\ ~call.done
    /\ \E periods \in {findAccelerationPeriods(call.args.lapData)} :
           call' = [call EXCEPT
                       !.routine = IF periods = <<>> THEN @ ELSE "createSectorBorders",
                       !.done = (periods = <<>>),
                       !.result.decelPeriods = decelerationPeriods(call.args.lapData),
                       !.result.sectors = provisionalSectors(call.args.lapData),
                       !.result.accelerationPeriods = periods]
    /\ CallOnly

\* this.sectorBorders = this.createSectorBorders(lapData, accelerationPeriods);
createSectorBordersCall ==
    /\ call.routine = "createSectorBorders"
    /\ ~call.done
    /\ call' = [call EXCEPT
                   !.done = TRUE,
                   !.result.sectorBorders =
                       createSectorBorders(call.args.lapData,
                                           call.result.accelerationPeriods)]
    /\ CallOnly

NextSegments == findAccelerationPeriodsCall \/ createSectorBordersCall

SpecSegments == InitSegments /\ [][NextSegments]_vars

(***************************************************************************)
(* splitIntoLaps on its own.  The samples are up to MaxBeaconSamples rows  *)
(* in any order of time, one of the times before the session start; each   *)
(* row carries its row number as its speed, so that two rows with the same *)
(* time are still two samples.  The beacon markers are up to MaxMarkers    *)
(* times in any order.                                                     *)
(***************************************************************************)
MaxMarkers == 2

MaxBeaconSamples == 3

BeaconTimes == {0, 5000, 10000}

BeaconSampleTimes == {-1000, 0, 5000, 7000, 12000}

BeaconMarkerLists == UNION {[1..n -> BeaconTimes] : n \in 0..MaxMarkers}

BeaconSamples ==
    {[i \in 1..Len(ts) |->
         [time |-> ts[i], speed |-> i, lat |-> 0, lon |-> 0, heading |-> 0]] :
        ts \in UNION {[1..n -> BeaconSampleTimes] : n \in 0..MaxBeaconSamples}}

InitSplit ==
    /\ InitData
    /\ InitVideo
    /\ csvText = NoFile
    /\ \E data \in BeaconSamples, beaconMarkers \in BeaconMarkerLists :
           call = [routine |-> "splitIntoLaps",
                   args |-> [telemetryData |-> data,
                             beaconMarkers |-> beaconMarkers],
                   done |-> FALSE, result |-> <<>>]

splitIntoLapsCall ==
    /\ call.routine = "splitIntoLaps"
    /\ ~call.done
    /\ call' = [call EXCEPT
                   !.done = TRUE,
                   !.result = splitIntoLaps(call.args.telemetryData,
                                            call.args.beaconMarkers)]
    /\ CallOnly

NextSplit == splitIntoLapsCall

SpecSplit == InitSplit /\ [][NextSplit]_vars

(***************************************************************************)
(* Properties.                                                             *)
(***************************************************************************)
\* C1: for every lap that has samples and is timed against at least one
\* gate, the sector durations calculateLapSectorTimes returned sum to the
\* lap's time, lapEnd - lapStart.
SectorTimesSumToLapTime ==
    (csvInfo = "loaded" /\ Len(sectorBorders) > 0) =>
        \A lapIndex \in 0..(Len(lapTimes) - 1) :
            Len(lapDataOf(This, lapIndex)) > 0 =>
                RSum(lapSectorTimes[lapIndex + 1])
                  = RInt(lapEndTimeOf(This, lapIndex) - lapStartTimes[lapIndex + 1])

\* A session with two gates and a lap with samples for which a gate crossing
\* was skipped.
SectorTimesWithSkippedGate ==
    /\ csvInfo = "loaded" /\ Len(sectorBorders) = 2
    /\ \E lapIndex \in 0..(Len(lapTimes) - 1) :
          /\ Len(lapDataOf(This, lapIndex)) > 0
          /\ Len(lapSectorTimes[lapIndex + 1]) = 2

\* C2: with G gates, every lap that has samples gets exactly G + 1 sector
\* durations.
EveryLapHasAllSectors ==
    (csvInfo = "loaded" /\ Len(lapSectorTimes) = Len(lapTimes)) =>
        \A lapIndex \in 0..(Len(lapTimes) - 1) :
            Len(lapDataOf(This, lapIndex)) > 0 =>
                Len(lapSectorTimes[lapIndex + 1]) = Len(sectorBorders) + 1

\* C3: once calculateDiffToBestLap has run, every sample whose time lies in
\* the best lap's range [lapStart, lapEnd] has diff exactly 0.
BestLapDiffIsZero ==
    (csvInfo = "loaded" /\ bestLapIndex >= 0
        /\ Len(diffToBestData) = Len(telemetryData)) =>
        \A i \in 1..Len(telemetryData) :
            inLapWindow(This, bestLapIndex, telemetryData[i]) =>
                diffToBestData[i] = DiffNum(RInt(0))

\* C4: after any sequence of loads, the gates, the sector times and the diff
\* series are those derived from the file parsed last, as parsing it with
\* nothing loaded before derives them.
DerivedDataIsFromLastFile ==
    csvInfo = "loaded" =>
        LET derived == parseCsvData(Fresh, csvText)
        IN  /\ sectorBorders = derived.sectorBorders
            /\ lapSectorTimes = derived.lapSectorTimes
            /\ diffToBestData = derived.diffToBestData

\* C5: for a non-empty list of lap times there is one start time per lap,
\* the first is 0 and each later one is the previous start plus the previous
\* lap's time.
LapStartTimesAreRunningSums ==
    (csvInfo = "loaded" /\ Len(lapTimes) > 0) =>
        /\ Len(lapStartTimes) = Len(lapTimes)
        /\ lapStartTimes[1] = 0
        /\ \A i \in 2..Len(lapTimes) :
              lapStartTimes[i] = lapStartTimes[i - 1] + lapTimes[i - 1]

\* The lap times 10.000, 62.345, 61.998, 63.102 with their start times.
LapStartTimesOfFourLaps ==
    /\ csvInfo = "loaded"
    /\ lapTimes = <<10000, 62345, 61998, 63102>>
    /\ lapStartTimes = <<0, 10000, 72345, 134343>>

\* C6: the best lap is the lowest index with the minimal lap time among laps
\* 1..n-1 when there is more than one lap and lap 0 when there is one; the
\* lap chosen for the sectors and the lap chosen for the diffs are the same.
BestLapIsFirstMinimum ==
    (csvInfo = "loaded" /\ bestLapIndex >= 0) =>
        LET n == Len(lapTimes)
        IN  /\ n = 1 => bestLapIndex = 0
            /\ n > 1 =>
                /\ bestLapIndex \in 1..(n - 1)
                /\ \A j \in 1..(n - 1) :
                      /\ lapTimes[bestLapIndex + 1] <= lapTimes[j + 1]
                      /\ j < bestLapIndex =>
                            lapTimes[bestLapIndex + 1] < lapTimes[j + 1]
            /\ sectorBestLapIndex >= 0 => sectorBestLapIndex = bestLapIndex

\* Three laps, the out-lap the shortest and the two timed laps equal: lap 1
\* is the best lap for the sectors and for the diffs.
BestLapAmongEqualLaps ==
    /\ csvInfo = "loaded" /\ Len(lapTimes) = 3
    /\ lapTimes[1] < lapTimes[2] /\ lapTimes[2] = lapTimes[3]
    /\ bestLapIndex = 1 /\ sectorBestLapIndex = 1

QueryReportsMatchedSample ==
    [][LET telemetryTime == videoCurrentTime' - syncOffset
           dist(i) == Abs(telemetryData[i].time - telemetryTime)
           matched == CHOOSE i \in 1..Len(telemetryData) :
                         /\ i = Len(telemetryData) \/ dist(i + 1) >= dist(i)
                         /\ \A j \in 1..(i - 1) : dist(j + 1) < dist(j)
           reported ==
               /\ display'.shown
               /\ display'.index = matched
               /\ display'.speedValue = telemetryData[matched].speed
               /\ display'.diffValue = formatDiffTime(diffToBestData[matched])
               /\ display'.diffColor = diffColor(diffToBestData[matched])
       IN  /\ (syncOffset = 0 \/ Len(telemetryData) = 0) => display' = display
           /\ (syncOffset # 0 /\ Len(telemetryData) > 0) =>
                /\ display' # display => reported
                /\ handleSeeked => reported]_vars

\* The panel shows a sample of the last lap with a diff that is not zero.
QueryShowsDiffOfSample ==
    /\ syncOffset # 0 /\ display.shown
    /\ display.index > 10 /\ display.diffColor \in {"red", "green"}
    /\ display.diffValue = formatDiffTime(diffToBestData[display.index])

\* C9: for samples in ascending order of time, duplicates allowed, the
\* query's search returns the lowest index among the samples closest to the
\* telemetry time.
SearchFindsNearestSample ==
    [][(handleSeeked /\ syncOffset # 0 /\ Len(telemetryData) > 0) =>
          LET telemetryTime == videoCurrentTime - syncOffset
              dist(i) == Abs(telemetryData[i].time - telemetryTime)
          IN  /\ \A j \in 1..Len(telemetryData) : dist(display'.index) <= dist(j)
              /\ \A j \in 1..(display'.index - 1) : dist(display'.index) < dist(j)]_vars

\* C10: a sample without a correspondence has diff null, and the panel never
\* shows a null diff as the value 0.
NullDiffIsNotShownAsZero ==
    (display.shown /\ display.index <= Len(diffToBestData)
        /\ diffToBestData[display.index].kind = "null") =>
        display.diffValue # formatDiffTime(DiffNum(RInt(0)))

\* C11: a file without a header row, or whose header row does not resolve
\* the Time and GPS Speed columns, makes the parse fail with an error and
\* yields no samples, in parseCsvData and in TelemetryCSVParser.parseCSV.
ParseWithoutHeaderFails ==
    csvText.header # "ok" =>
        /\ csvInfo # "none" => csvInfo = "parseError" /\ telemetryData = <<>>
        /\ session # NoSession =>
               /\ session.threw
               /\ \A i \in 1..Len(session.laps) : session.laps[i].telemetryData = <<>>

\* C12: the samples are exactly the data rows whose time and speed both
\* parse as numbers, in file order; the other rows are skipped and the parse
\* goes on.
AcceptsRowsWithTimeAndSpeed ==
    csvInfo = "loaded" =>
        LET rows == csvText.rows
            numeric == {i \in 1..Len(rows) : rows[i].timeOk /\ rows[i].speedOk}
            nth(k) == CHOOSE i \in numeric :
                          Cardinality({j \in numeric : j < i}) = k - 1
        IN  /\ Len(telemetryData) = Cardinality(numeric)
            /\ \A k \in 1..Len(telemetryData) :
                   /\ telemetryData[k].time = rows[nth(k)].time
                   /\ telemetryData[k].speed = rows[nth(k)].speed

\* C12 as amended: the samples are exactly the data rows that have a value
\* for every resolved column and whose time and speed both parse as
\* numbers, in file order; the other rows are skipped and the parse goes on.
AcceptsCompleteRowsWithTimeAndSpeed ==
    csvInfo = "loaded" =>
        LET rows == csvText.rows
            complete == {i \in 1..Len(rows) :
                            /\ rows[i].fields > csvText.maxIndex
                            /\ rows[i].timeOk /\ rows[i].speedOk}
            nth(k) == CHOOSE i \in complete :
                          Cardinality({j \in complete : j < i}) = k - 1
        IN  /\ Len(telemetryData) = Cardinality(complete)
            /\ \A k \in 1..Len(telemetryData) :
                   /\ telemetryData[k].time = rows[nth(k)].time
                   /\ telemetryData[k].speed = rows[nth(k)].speed
                   /\ telemetryData[k].lat = rows[nth(k)].lat
                   /\ telemetryData[k].lon = rows[nth(k)].lon
                   /\ telemetryData[k].heading = rows[nth(k)].heading

\* C12 witness: a loaded log in which a row without a time, a row without a
\* speed and a short row were skipped, rows after them were accepted, and
\* two accepted samples are out of time order.
DamagedRowsSkipped ==
    /\ csvInfo = "loaded"
    /\ \E i \in 1..Len(csvText.rows) : ~csvText.rows[i].timeOk
    /\ \E i \in 1..Len(csvText.rows) : ~csvText.rows[i].speedOk
    /\ \E i \in 1..Len(csvText.rows) : csvText.rows[i].fields <= csvText.maxIndex
    /\ Len(telemetryData) = Len(csvText.rows) - 3
    /\ \E k \in 1..(Len(telemetryData) - 1) :
           telemetryData[k].time > telemetryData[k + 1].time

\* C13: after loading a log in which no sample has both latitude and
\* longitude non-zero, the no-GPS warning was reported, the gate list is
\* empty and the parse did not throw.
NoGpsGivesWarningAndNoGates ==
    ( /\ csvInfo \in {"loaded", "parseError"}
      /\ csvText.header = "ok"
      /\ Len(telemetryData) > 0
      /\ \A i \in 1..Len(telemetryData) :
             telemetryData[i].lat = 0 \/ telemetryData[i].lon = 0 )
    => /\ csvInfo = "loaded"
       /\ \E k \in 1..Len(warnings) : warnings[k] = "warnNoGps"
       /\ sectorBorders = <<>>

\* C14: every handler step that runs the playback query (a timeupdate, an
\* animation-frame update, the end of a seek) leaves the sync offset, the
\* samples, the lap times and start times, the gates, the sector times, the
\* reference lap and the diff series as they were.
QueryLeavesCoreStateUnchanged ==
    [][(handleTimeUpdate \/ highFrequencyUpdate \/ handleSeeked) =>
          UNCHANGED <<syncOffset, telemetryData, lapTimes, lapStartTimes,
                      sectorBorders, lapSectorTimes, bestLapData,
                      diffToBestData>>]_vars

\* C14 witness: with a sync offset in place the query has matched the first
\* sample of the loaded log.
QueryRanOnSyncedLog ==
    /\ display.shown /\ display.index = 1
    /\ syncOffset # 0
    /\ Len(telemetryData) > 0

\* C15: on a straight track with strictly increasing times that passes
\* through the midpoint of the gate, findBorderCrossing returns a time
\* strictly between the times of two consecutive samples that have the
\* midpoint between them.
CrossingStrictlyBetweenBoundingSamples ==
    (call.routine = "findBorderCrossing" /\ call.done) =>
        LET lapData == call.args.lapData
            border == call.args.border
            dLon(i) == lapData[i + 1].lon - lapData[i].lon
            dLat(i) == lapData[i + 1].lat - lapData[i].lat
            mLon(i) == border.centerLon - lapData[i].lon
            mLat(i) == border.centerLat - lapData[i].lat
            pairs == 1..(Len(lapData) - 1)
            Straight ==
                /\ Len(lapData) >= 2
                /\ \A i \in pairs : /\ dLon(1) * dLat(i) - dLat(1) * dLon(i) = 0
                                    /\ dLon(1) * dLon(i) + dLat(1) * dLat(i) > 0
                                    /\ lapData[i].time < lapData[i + 1].time
            OnPair(i) ==
                /\ dLon(i) * mLat(i) - dLat(i) * mLon(i) = 0
                /\ 0 <= dLon(i) * mLon(i) + dLat(i) * mLat(i)
                /\ dLon(i) * mLon(i) + dLat(i) * mLat(i)
                       <= dLon(i) * dLon(i) + dLat(i) * dLat(i)
        IN  (Straight /\ \E i \in pairs : OnPair(i)) =>
                \E i \in pairs :
                    /\ OnPair(i)
                    /\ RLess(RInt(lapData[i].time), call.result)
                    /\ RLess(call.result, RInt(lapData[i + 1].time))

\* C15 as amended: on a straight track with strictly increasing times none
\* of whose pairs is parallel to the gate, when the midpoint of the gate lies
\* strictly between two consecutive samples the result is strictly between
\* their times, and when a sample lies on the midpoint the result is that
\* sample's time.
CrossingBetweenSamplesAroundMidpoint ==
    (call.routine = "findBorderCrossing" /\ call.done) =>
        LET lapData == call.args.lapData
            border == call.args.border
            dLon(i) == lapData[i + 1].lon - lapData[i].lon
            dLat(i) == lapData[i + 1].lat - lapData[i].lat
            mLon(i) == border.centerLon - lapData[i].lon
            mLat(i) == border.centerLat - lapData[i].lat
            gLon == border.endLon - border.startLon
            gLat == border.endLat - border.startLat
            pairs == 1..(Len(lapData) - 1)
            Straight ==
                /\ Len(lapData) >= 2
                /\ \A i \in pairs : /\ dLon(1) * dLat(i) - dLat(1) * dLon(i) = 0
                                    /\ dLon(1) * dLon(i) + dLat(1) * dLat(i) > 0
                                    /\ lapData[i].time < lapData[i + 1].time
            Across ==
                \A i \in pairs : Abs(dLon(i) * gLat - dLat(i) * gLon) >= DenomEps
            InsidePair(i) ==
                /\ dLon(i) * mLat(i) - dLat(i) * mLon(i) = 0
                /\ 0 < dLon(i) * mLon(i) + dLat(i) * mLat(i)
                /\ dLon(i) * mLon(i) + dLat(i) * mLat(i)
                       < dLon(i) * dLon(i) + dLat(i) * dLat(i)
        IN  (Straight /\ Across) =>
                /\ \A i \in pairs :
                       InsidePair(i) =>
                           /\ RLess(RInt(lapData[i].time), call.result)
                           /\ RLess(call.result, RInt(lapData[i + 1].time))
                /\ \A k \in 1..Len(lapData) :
                       (mLon(k) = 0 /\ mLat(k) = 0) =>
                           call.result = RInt(lapData[k].time)

\* C15 witness: the call has returned for a straight three-sample track that
\* crosses the gate, with the midpoint of the gate strictly between its first
\* two samples, and the result is half way between their times.
CrossedMidpointBetweenSamples ==
    /\ call.routine = "findBorderCrossing"
    /\ call.done
    /\ Len(call.args.lapData) = 3
    /\ call.args.border.centerLon = 110
    /\ \A i \in 1..3 : call.args.lapData[i].lat = 220
    /\ \A i \in 1..2 : /\ call.args.lapData[i + 1].lon = call.args.lapData[i].lon + 20
                        /\ call.args.lapData[i].time < call.args.lapData[i + 1].time
    /\ call.result = RInt((trackTime(1) + trackTime(2)) \div 2)

\* C19: when one or more pairs of consecutive samples intersect the gate
\* (not near-parallel, both intersection parameters in [0, 1]), the result is
\* the time interpolated on the lowest-index such pair,
\* time1 + t * (time2 - time1), and lies within that pair's two times.
FirstIntersectingPairGivesCrossing ==
    (call.routine = "findBorderCrossing" /\ call.done) =>
        LET lapData == call.args.lapData
            border == call.args.border
            pairs == 1..(Len(lapData) - 1)
            gLon == border.startLon - border.endLon
            gLat == border.startLat - border.endLat
            denom(i) == (lapData[i].lon - lapData[i + 1].lon) * gLat
                            - (lapData[i].lat - lapData[i + 1].lat) * gLon
            tNum(i) == (lapData[i].lon - border.startLon) * gLat
                           - (lapData[i].lat - border.startLat) * gLon
            uNum(i) == -((lapData[i].lon - lapData[i + 1].lon)
                             * (lapData[i].lat - border.startLat)
                         - (lapData[i].lat - lapData[i + 1].lat)
                             * (lapData[i].lon - border.startLon))
            \* num / denom(i) lies in [0, 1]
            Unit(num, i) == /\ num * denom(i) >= 0
                            /\ Abs(num) <= Abs(denom(i))
            Intersects(i) == /\ Abs(denom(i)) >= DenomEps
                             /\ Unit(tNum(i), i)
                             /\ Unit(uNum(i), i)
            hits == {i \in pairs : Intersects(i)}
            \* (result - time1) * denom = tNum * (time2 - time1)
            OnPair(i) ==
                /\ (call.result.n - lapData[i].time * call.result.d) * denom(i)
                       = tNum(i) * (lapData[i + 1].time - lapData[i].time)
                              * call.result.d
                /\ RLeq(RInt(lapData[i].time), call.result)
                /\ RLeq(call.result, RInt(lapData[i + 1].time))
        IN  hits # {} => OnPair(CHOOSE i \in hits : \A j \in hits : i <= j)

\* C19 as amended: when one or more pairs of consecutive samples whose times
\* are in order (time2 >= time1) intersect the gate, the result is the time
\* interpolated on the lowest-index such pair and lies within that pair's two
\* times; an intersecting pair whose times are reversed is passed over.
FirstOrderedIntersectingPairGivesCrossing ==
    (call.routine = "findBorderCrossing" /\ call.done) =>
        LET lapData == call.args.lapData
            border == call.args.border
            pairs == 1..(Len(lapData) - 1)
            gLon == border.startLon - border.endLon
            gLat == border.startLat - border.endLat
            denom(i) == (lapData[i].lon - lapData[i + 1].lon) * gLat
                            - (lapData[i].lat - lapData[i + 1].lat) * gLon
            tNum(i) == (lapData[i].lon - border.startLon) * gLat
                           - (lapData[i].lat - border.startLat) * gLon
            uNum(i) == -((lapData[i].lon - lapData[i + 1].lon)
                             * (lapData[i].lat - border.startLat)
                         - (lapData[i].lat - lapData[i + 1].lat)
                             * (lapData[i].lon - border.startLon))
            \* num / denom(i) lies in [0, 1]
            Unit(num, i) == /\ num * denom(i) >= 0
                            /\ Abs(num) <= Abs(denom(i))
            Intersects(i) == /\ Abs(denom(i)) >= DenomEps
                             /\ Unit(tNum(i), i)
                             /\ Unit(uNum(i), i)
            hits == {i \in pairs : Intersects(i) /\ lapData[i].time <= lapData[i + 1].time}
            \* (result - time1) * denom = tNum * (time2 - time1)
            OnPair(i) ==
                /\ (call.result.n - lapData[i].time * call.result.d) * denom(i)
                       = tNum(i) * (lapData[i + 1].time - lapData[i].time)
                              * call.result.d
                /\ RLeq(RInt(lapData[i].time), call.result)
                /\ RLeq(call.result, RInt(lapData[i + 1].time))
        IN  hits # {} => OnPair(CHOOSE i \in hits : \A j \in hits : i <= j)

\* C19 witness: the call has returned for a track in time order whose first
\* pair crosses the gate at its end and whose second pair crosses it at its
\* centre; the result is the first pair's interpolated time.
LaterPairCrossedNearerCentre ==
    /\ call.routine = "findBorderCrossing"
    /\ call.done
    /\ call.args.border = Gate(180, 110, 260, 110)
    /\ call.args.lapData =
           trackLapData(<<[lat |-> 180, lon |-> 100], [lat |-> 180, lon |-> 120],
                          [lat |-> 260, lon |-> 100]>>, "ascending")
    /\ call.result = RInt((trackTime(1) + trackTime(2)) \div 2)

\* C20: when no pair of consecutive samples intersects the gate, the result
\* is the time of the earliest sample at minimal distance from the gate
\* segment (projection clamped to the segment); the result always lies
\* between the times of the lap's first and last samples.
FallbackNearestSampleWithinLap ==
    (call.routine = "findBorderCrossing" /\ call.done) =>
        LET lapData == call.args.lapData
            border == call.args.border
            pairs == 1..(Len(lapData) - 1)
            samples == 1..Len(lapData)
            gLon == border.endLon - border.startLon
            gLat == border.endLat - border.startLat
            gLen2 == gLon * gLon + gLat * gLat
            denom(i) == (lapData[i + 1].lon - lapData[i].lon) * gLat
                            - (lapData[i + 1].lat - lapData[i].lat) * gLon
            tNum(i) == (border.startLon - lapData[i].lon) * gLat
                           - (border.startLat - lapData[i].lat) * gLon
            uNum(i) == (border.startLon - lapData[i].lon)
                             * (lapData[i + 1].lat - lapData[i].lat)
                         - (border.startLat - lapData[i].lat)
                             * (lapData[i + 1].lon - lapData[i].lon)
            Unit(num, i) == /\ num * denom(i) >= 0
                            /\ Abs(num) <= Abs(denom(i))
            Intersects(i) == /\ Abs(denom(i)) >= DenomEps
                             /\ Unit(tNum(i), i)
                             /\ Unit(uNum(i), i)
            \* squared distance from sample k to (lon, lat)
            toPoint(k, lon, lat) == (lapData[k].lon - lon) * (lapData[k].lon - lon)
                                      + (lapData[k].lat - lat) * (lapData[k].lat - lat)
            \* position of the projection of sample k along the gate, times gLen2
            along(k) == (lapData[k].lon - border.startLon) * gLon
                            + (lapData[k].lat - border.startLat) * gLat
            \* squared distance from sample k to the gate segment, times gLen2
            toGate(k) ==
                IF along(k) <= 0
                THEN toPoint(k, border.startLon, border.startLat) * gLen2
                ELSE IF along(k) >= gLen2
                     THEN toPoint(k, border.endLon, border.endLat) * gLen2
                     ELSE toPoint(k, border.startLon, border.startLat) * gLen2
                              - along(k) * along(k)
            Nearest(k) == /\ \A j \in samples : toGate(k) <= toGate(j)
                          /\ \A j \in 1..(k - 1) : toGate(k) < toGate(j)
        IN  /\ (\A i \in pairs : ~Intersects(i)) =>
                   \E k \in samples :
                       Nearest(k) /\ call.result = RInt(lapData[k].time)
            /\ /\ RLeq(RInt(lapData[1].time), call.result)
               /\ RLeq(call.result, RInt(lapData[Len(lapData)].time))

\* C20 as amended: when no pair of consecutive samples intersects the gate,
\* the result is the time of the earliest sample at minimal distance from the
\* gate segment (projection clamped to the segment); the result always lies
\* between the smallest and the largest sample time of the lap, which are
\* the first and the last sample's times when the lap is in time order.
FallbackNearestSampleWithinLapTimes ==
    (call.routine = "findBorderCrossing" /\ call.done) =>
        LET lapData == call.args.lapData
            border == call.args.border
            pairs == 1..(Len(lapData) - 1)
            samples == 1..Len(lapData)
            gLon == border.endLon - border.startLon
            gLat == border.endLat - border.startLat
            gLen2 == gLon * gLon + gLat * gLat
            denom(i) == (lapData[i + 1].lon - lapData[i].lon) * gLat
                            - (lapData[i + 1].lat - lapData[i].lat) * gLon
            tNum(i) == (border.startLon - lapData[i].lon) * gLat
                           - (border.startLat - lapData[i].lat) * gLon
            uNum(i) == (border.startLon - lapData[i].lon)
                             * (lapData[i + 1].lat - lapData[i].lat)
                         - (border.startLat - lapData[i].lat)
                             * (lapData[i + 1].lon - lapData[i].lon)
            Unit(num, i) == /\ num * denom(i) >= 0
                            /\ Abs(num) <= Abs(denom(i))
            Intersects(i) == /\ Abs(denom(i)) >= DenomEps
                             /\ Unit(tNum(i), i)
                             /\ Unit(uNum(i), i)
            \* squared distance from sample k to (lon, lat)
            toPoint(k, lon, lat) == (lapData[k].lon - lon) * (lapData[k].lon - lon)
                                      + (lapData[k].lat - lat) * (lapData[k].lat - lat)
            \* position of the projection of sample k along the gate, times gLen2
            along(k) == (lapData[k].lon - border.startLon) * gLon
                            + (lapData[k].lat - border.startLat) * gLat
            \* squared distance from sample k to the gate segment, times gLen2
            toGate(k) ==
                IF along(k) <= 0
                THEN toPoint(k, border.startLon, border.startLat) * gLen2
                ELSE IF along(k) >= gLen2
                     THEN toPoint(k, border.endLon, border.endLat) * gLen2
                     ELSE toPoint(k, border.startLon, border.startLat) * gLen2
                              - along(k) * along(k)
            Nearest(k) == /\ \A j \in samples : toGate(k) <= toGate(j)
                          /\ \A j \in 1..(k - 1) : toGate(k) < toGate(j)
        IN  /\ (\A i \in pairs : ~Intersects(i)) =>
                   \E k \in samples :
                       Nearest(k) /\ call.result = RInt(lapData[k].time)
            /\ /\ \E j \in samples : RLeq(RInt(lapData[j].time), call.result)
               /\ \E j \in samples : RLeq(call.result, RInt(lapData[j].time))
               /\ (\A i \in pairs : lapData[i].time <= lapData[i + 1].time) =>
                      /\ RLeq(RInt(lapData[1].time), call.result)
                      /\ RLeq(call.result, RInt(lapData[Len(lapData)].time))

\* C20 witness: the call has returned for a track that stays clear of the
\* gate, whose first sample is the nearest to the line through the gate but
\* not to the gate itself, and whose second and third samples are equally
\* near the gate; the result is the second sample's time.
NearestOfTiedSamplesReturned ==
    /\ call.routine = "findBorderCrossing"
    /\ call.done
    /\ call.args.border = Gate(270, 150, 270, 170)
    /\ call.args.lapData =
           trackLapData(<<[lat |-> 260, lon |-> 100], [lat |-> 260, lon |-> 140],
                          [lat |-> 260, lon |-> 140]>>, "ascending")
    /\ call.result = RInt(trackTime(2))

\* C16: with a non-zero offset, the video time obtained from the telemetry
\* time of a video time x (x - offset, then + offset) is x.
RoundTripReturnsVideoTime ==
    (call.routine = "jumpToLapStart" /\ call.done) =>
        call.result = call.args.currentTime

\* C16 as amended: with a non-zero offset, the video time obtained from the
\* telemetry time of a video time x is x up to the rounding of the two
\* operations: it differs from x by at most one unit in the last place of
\* the larger of the telemetry time and the result, and it is x whenever
\* x - offset is computed without rounding.
RoundTripReturnsVideoTimeUpToRounding ==
    (call.routine = "jumpToLapStart" /\ call.done) =>
        LET x == call.args.currentTime
            offset == call.args.syncOffset
            t == call.args.lapStartTime
            \* the exponent of the most significant bit
            top(v) == v.exp + Len(v.m) - 1
            lastPlace == Max2(top(t), top(call.result)) - (Significand - 1)
            AtMostLastPlace(err) ==
                \/ err.m = <<>>
                \/ top(err) < lastPlace
                \/ top(err) = lastPlace /\ Len(err.m) = 1
        IN  /\ t # Zero => AtMostLastPlace(exactSum(call.result, negated(x)))
            /\ t = exactSum(x, negated(offset)) => call.result = x

\* C16 witness: both conversions have run with a non-zero offset on a video
\* time whose telemetry time needed rounding, and the result is not the
\* video time.
RoundTripRounded ==
    /\ call.routine = "jumpToLapStart"
    /\ call.done
    /\ call.args.syncOffset # Zero
    /\ call.args.lapStartTime
           # exactSum(call.args.currentTime, negated(call.args.syncOffset))
    /\ call.result # call.args.currentTime

AnchorIsNearestReferenceSample ==
    (csvInfo = "loaded" /\ bestLapIndex >= 0 /\ Len(bestLapData) > 0) =>
        \A lapIndex \in (0..(Len(lapStartTimes) - 1)) \ {bestLapIndex} :
            \A i \in 1..Len(telemetryData) :
                LET lapStartTime == lapStartTimes[lapIndex + 1]
                    lapEndTime == IF lapIndex + 1 < Len(lapStartTimes)
                                  THEN lapStartTimes[lapIndex + 2]
                                  ELSE lapStartTime + lapTimes[lapIndex + 1]
                    point == telemetryData[i]
                    target == lapStartTimes[bestLapIndex + 1]
                                  + (point.time - lapStartTime)
                    anchor == currentPointIndex(This, point.time - lapStartTime)
                IN  (/\ point.time >= lapStartTime
                     /\ point.time <= lapEndTime
                     /\ point.lat # 0
                     /\ point.lon # 0) =>
                        /\ anchor # 0
                        /\ \A k \in 1..Len(bestLapData) :
                               Abs(bestLapData[anchor].time - target)
                                   <= Abs(bestLapData[k].time - target)

\* The deceleration episodes that a walk over the pairs in P keeps.  A pair
\* is named by the index of its later sample; it is a braking pair when the
\* speed change per second is below -0.5.  An episode opens at a braking pair
\* that follows no braking pair, starts at the time of that pair's earlier
\* sample, and ends at the later sample of the first later pair that is not
\* braking or, if there is none, at the last sample.
episodesOver(lapData, P) ==
    LET braking(i) ==
            RLess(acceleration(lapData[i], lapData[i - 1]), accelerationThreshold)
        opens(i) ==
            /\ braking(i)
            /\ \A j \in P : (j < i /\ \A k \in P : k < i => k <= j) => ~braking(j)
        closers(i) == {j \in P : j > i /\ ~braking(j)}
        endOf(i) ==
            IF closers(i) = {} THEN lapData[Len(lapData)].time
            ELSE lapData[CHOOSE j \in closers(i) : \A k \in closers(i) : j <= k].time
        kept(i) ==
            endOf(i) - lapData[i - 1].time
                >= IF closers(i) = {} THEN DanglingDecelDuration ELSE MinDecelDuration
    IN  {[startTime |-> lapData[i - 1].time,
          endTime |-> endOf(i),
          duration |-> endOf(i) - lapData[i - 1].time] :
            i \in {j \in P : opens(j) /\ kept(j)}}

\* The pairs whose later sample is later in time.
timedPairs(lapData) ==
    {i \in 2..Len(lapData) : lapData[i].time - lapData[i - 1].time > 0}

periodsOf(periods) == {periods[k] : k \in 1..Len(periods)}

segmented ==
    call.routine = "createSectorBorders"
        \/ (call.routine = "findAccelerationPeriods" /\ call.done)

\* C24: walking the consecutive sample pairs of the reference lap, a
\* deceleration episode opens when the speed change per second drops below
\* -0.5 and closes at the first later pair where it is >= -0.5; a closed
\* episode is retained exactly when it lasts >= 1.0 s, one still open at the
\* last sample exactly when it lasts >= 0.2 s up to the last sample.
EpisodesOverAllPairs ==
    segmented =>
        /\ periodsOf(call.result.decelPeriods)
               = episodesOver(call.args.lapData, 2..Len(call.args.lapData))
        /\ \A k, l \in 1..Len(call.result.decelPeriods) :
               call.result.decelPeriods[k] = call.result.decelPeriods[l] => k = l

\* C24 as the walk goes: the same over the pairs whose later sample is later
\* in time; a pair whose time difference is not positive is passed over and
\* neither opens nor closes an episode.
EpisodesOverTimedPairs ==
    segmented =>
        /\ periodsOf(call.result.decelPeriods)
               = episodesOver(call.args.lapData, timedPairs(call.args.lapData))
        /\ \A k, l \in 1..Len(call.result.decelPeriods) :
               call.result.decelPeriods[k] = call.result.decelPeriods[l] => k = l

\* C24 witness: a lap with a row out of time order whose walk kept an episode
\* of exactly 1.0 s that ends before the time of the last sample.
EpisodeKeptBesideUntimedPair ==
    /\ segmented
    /\ timedPairs(call.args.lapData) # 2..Len(call.args.lapData)
    /\ \E k \in 1..Len(call.result.decelPeriods) :
           /\ call.result.decelPeriods[k].duration = MinDecelDuration
           /\ call.result.decelPeriods[k].endTime
                  # call.args.lapData[Len(call.args.lapData)].time

\* C23: after the merge pass every provisional sector lies within a sector
\* of the output (one shorter than 5.0 s has been merged into a neighbour),
\* no sector of the output is shorter than 5.0 s unless it is the only one,
\* and the sectors of the output are in time order and do not overlap.
MergedSectorsLongAndOrdered ==
    segmented =>
        /\ \A k \in 1..Len(call.result.sectors) :
               \E l \in 1..Len(call.result.accelerationPeriods) :
                   /\ call.result.accelerationPeriods[l].startTime
                          <= call.result.sectors[k].startTime
                   /\ call.result.sectors[k].endTime
                          <= call.result.accelerationPeriods[l].endTime
        /\ \A k \in 1..Len(call.result.accelerationPeriods) :
               call.result.accelerationPeriods[k].duration < MinSectorDuration
                   => Len(call.result.accelerationPeriods) = 1
        /\ \A k, l \in 1..Len(call.result.accelerationPeriods) :
               k < l => /\ call.result.accelerationPeriods[k].endTime
                               <= call.result.accelerationPeriods[l].startTime
                        /\ call.result.accelerationPeriods[k].startTime
                               < call.result.accelerationPeriods[k].endTime

\* The sample times of the lap never decrease.
inTimeOrder(lapData) ==
    \A i \in 2..Len(lapData) : lapData[i - 1].time <= lapData[i].time

\* C23 for a lap in time order: when the sample times of the reference lap
\* never decrease, every provisional sector lies within a sector of the
\* output, no sector of the output is shorter than 5.0 s unless it is the only
\* one, and the sectors of the output are in time order and do not overlap.
MergedSectorsOfOrderedLap ==
    (segmented /\ inTimeOrder(call.args.lapData)) =>
        /\ \A k \in 1..Len(call.result.sectors) :
               \E l \in 1..Len(call.result.accelerationPeriods) :
                   /\ call.result.accelerationPeriods[l].startTime
                          <= call.result.sectors[k].startTime
                   /\ call.result.sectors[k].endTime
                          <= call.result.accelerationPeriods[l].endTime
        /\ \A k \in 1..Len(call.result.accelerationPeriods) :
               call.result.accelerationPeriods[k].duration < MinSectorDuration
                   => Len(call.result.accelerationPeriods) = 1
        /\ \A k, l \in 1..Len(call.result.accelerationPeriods) :
               k < l => /\ call.result.accelerationPeriods[k].endTime
                               <= call.result.accelerationPeriods[l].startTime
                        /\ call.result.accelerationPeriods[k].startTime
                               < call.result.accelerationPeriods[k].endTime

\* C23 witness: a lap in time order with three provisional sectors, the first
\* and the last shorter than 5.0 s, merged into one sector from the first
\* sector's start to the last sector's end.
ShortSectorsMergedBothWays ==
    /\ segmented
    /\ inTimeOrder(call.args.lapData)
    /\ Len(call.result.sectors) = 3
    /\ call.result.sectors[1].duration < MinSectorDuration
    /\ call.result.sectors[2].duration >= MinSectorDuration
    /\ call.result.sectors[3].duration < MinSectorDuration
    /\ Len(call.result.accelerationPeriods) = 1
    /\ call.result.accelerationPeriods[1].startTime = call.result.sectors[1].startTime
    /\ call.result.accelerationPeriods[1].endTime = call.result.sectors[3].endTime

\* C22: every gate of the gate list has a time at least 2.0 s before the
\* time of the reference lap's last sample, and the gate list is in ascending
\* order of time.
GatesClearOfLapEndAndSorted ==
    (call.routine = "createSectorBorders" /\ call.done) =>
        /\ \A k \in 1..Len(call.result.sectorBorders) :
               call.args.lapData[Len(call.args.lapData)].time
                   - call.result.sectorBorders[k].time >= MinFinalSector
        /\ \A k, l \in 1..Len(call.result.sectorBorders) :
               k < l => call.result.sectorBorders[k].time
                            <= call.result.sectorBorders[l].time

\* The time of the sample on which a gate aimed at the instant t is built.
targetSampleTime(lapData, t) == lapData[closestIndexSearch(lapData, t)].time

\* C21: each gate made by createSectorBorders targets the instant 0.2 s
\* before the end time of a retained deceleration episode of the reference
\* lap, and there is one gate for each such episode.
GatesBeforeEpisodeEnds ==
    (call.routine = "createSectorBorders" /\ call.done) =>
        /\ \A k \in 1..Len(call.result.sectorBorders) :
               \E d \in 1..Len(call.result.decelPeriods) :
                   call.result.sectorBorders[k].time
                       = targetSampleTime(call.args.lapData,
                             call.result.decelPeriods[d].endTime - BorderLead)
        /\ Len(call.result.sectorBorders) = Len(call.result.decelPeriods)

\* The sectors left by the merge pass whose end less 0.2 s lies at least
\* 2.0 s before the last sample of the lap.
gatedSectors(lapData, accelerationPeriods) ==
    {l \in 1..Len(accelerationPeriods) :
        lapData[Len(lapData)].time - (accelerationPeriods[l].endTime - BorderLead)
            >= MinFinalSector}

\* C21 as the gates are placed: each gate targets the instant 0.2 s before
\* the start time of a retained deceleration episode, which is the end time
\* of a sector left by the merge pass, and there is one gate for each such
\* sector whose end less 0.2 s lies at least 2.0 s before the last sample.
GatesBeforeEpisodeStarts ==
    (call.routine = "createSectorBorders" /\ call.done) =>
        /\ \A k \in 1..Len(call.result.sectorBorders) :
               \E d \in 1..Len(call.result.decelPeriods) :
                   /\ call.result.sectorBorders[k].time
                          = targetSampleTime(call.args.lapData,
                                call.result.decelPeriods[d].startTime - BorderLead)
                   /\ \E l \in gatedSectors(call.args.lapData,
                                            call.result.accelerationPeriods) :
                          call.result.accelerationPeriods[l].endTime
                              = call.result.decelPeriods[d].startTime
        /\ \A l \in gatedSectors(call.args.lapData, call.result.accelerationPeriods) :
               \E k \in 1..Len(call.result.sectorBorders) :
                   call.result.sectorBorders[k].time
                       = targetSampleTime(call.args.lapData,
                             call.result.accelerationPeriods[l].endTime - BorderLead)
        /\ Len(call.result.sectorBorders)
               = Cardinality(gatedSectors(call.args.lapData,
                                          call.result.accelerationPeriods))

\* C21 witness: a lap in time order with two retained episodes and one gate,
\* and the gate is on a sample that the instant 0.2 s before the end of
\* either episode does not select.
GateAheadOfBraking ==
    /\ call.routine = "createSectorBorders"
    /\ call.done
    /\ inTimeOrder(call.args.lapData)
    /\ Len(call.result.decelPeriods) = 2
    /\ Len(call.result.sectorBorders) = 1
    /\ \A d \in 1..Len(call.result.decelPeriods) :
           call.result.sectorBorders[1].time
               # targetSampleTime(call.args.lapData,
                     call.result.decelPeriods[d].endTime - BorderLead)

\* C25: after a CSV load with at least one lap time, every lap for which the
\* gate list is empty or whose time window holds no sample has the one
\* sector time [lapTime].
SingleSectorWithoutGatesOrSamples ==
    (csvInfo = "loaded" /\ Len(lapTimes) >= 1) =>
        \A lapIndex \in 0..(Len(lapTimes) - 1) :
            (Len(sectorBorders) = 0 \/ Len(lapDataOf(This, lapIndex)) = 0) =>
                /\ Len(lapSectorTimes) > lapIndex
                /\ lapSectorTimes[lapIndex + 1] = <<RInt(lapTimes[lapIndex + 1])>>

\* The gate through sample i of the session, its direction taken from the
\* samples of lap lapIndex around that sample.
ownLapGate(s, lapIndex, i) ==
    createPerpendicularLine(
        s.telemetryData[i], lapDataOf(s, lapIndex),
        Cardinality({j \in 1..i : inLapWindow(s, lapIndex, s.telemetryData[j])}))

\* The diff of sample i of lap lapIndex when the reference lap is timed
\* against the gate of the lap's own direction.
ownGateDiff(s, lapIndex, i) ==
    LET currentLapProgress == s.telemetryData[i].time - s.lapStartTimes[lapIndex + 1]
    IN  DiffNum(RSub(RInt(currentLapProgress),
                     RSub(findBorderCrossing(s.bestLapData, ownLapGate(s, lapIndex, i)),
                          RInt(s.lapStartTimes[s.bestLapIndex + 1]))))

\* The samples of lap lapIndex that the delta engine times: with a GPS fix
\* and an anchor, in the window of this lap alone and alone at their time.
timedAgainstReference(s, lapIndex) ==
    {i \in 1..Len(s.telemetryData) :
        /\ s.telemetryData[i].lat # 0
        /\ s.telemetryData[i].lon # 0
        /\ \A l \in 0..(Len(s.lapTimes) - 1) :
               inLapWindow(s, l, s.telemetryData[i]) <=> l = lapIndex
        /\ \A j \in 1..Len(s.telemetryData) :
               s.telemetryData[j].time = s.telemetryData[i].time => j = i
        /\ currentPointIndex(s, s.telemetryData[i].time
                                    - s.lapStartTimes[lapIndex + 1]) # 0}

\* C26: the gate built for a sample of a lap other than the reference lap
\* takes its direction from that lap's own samples around the sample: the
\* sample's diff is the one the reference lap's crossing of that gate gives.
SyntheticGateFollowsOwnLap ==
    (csvInfo = "loaded" /\ bestLapIndex >= 0 /\ Len(bestLapData) > 0
        /\ Len(diffToBestData) = Len(telemetryData)) =>
        \A lapIndex \in (0..(Len(lapTimes) - 1)) \ {bestLapIndex} :
            \A i \in timedAgainstReference(This, lapIndex) :
                diffToBestData[i] = ownGateDiff(This, lapIndex, i)

\* C27: the per-lap sample windows of sector timing and of the diff
\* computation give each sample to at most one of two consecutive laps: no
\* sample, the one at the shared boundary lapStartTimes[i + 1] included, is in
\* the windows of both lap i and lap i + 1.
ConsecutiveLapWindowsShareNoSample ==
    (csvInfo = "loaded" /\ Len(lapStartTimes) = Len(lapTimes)) =>
        \A lapIndex \in 0..(Len(lapTimes) - 2) :
            \A i \in 1..Len(telemetryData) :
                ~(/\ inLapWindow(This, lapIndex, telemetryData[i])
                  /\ inLapWindow(This, lapIndex + 1, telemetryData[i]))

\* C28: when parseCsvData throws, the session loaded before is left as it
\* was: lapTimes, lapStartTimes, telemetryData, sectorBorders, lapSectorTimes
\* and diffToBestData keep the values they had before the call.
FailedParseLeavesSessionUnchanged ==
    [][csvInfo' = "parseError" =>
          UNCHANGED <<lapTimes, lapStartTimes, telemetryData, sectorBorders,
                      lapSectorTimes, diffToBestData>>]_vars

\* C29: under every interleaving of play, pause, seeking, seeked and
\* timeupdate events with animation-frame callbacks, at most one
\* high-frequency animation-frame callback is pending, and none is pending
\* while isHighFrequencyActive is false.
AtMostOneFramePendingNoneWhenInactive ==
    /\ pendingFrames <= 1
    /\ ~isHighFrequencyActive => pendingFrames = 0

\* C29 witness: the video is playing and a seek is under way; the seeking
\* event has stopped the loop and no callback is pending.
LoopStoppedDuringSeek ==
    /\ ~videoPaused
    /\ pendingSeek = "seeked"
    /\ wasHighFrequencyActiveBeforeSeeking
    /\ ~isHighFrequencyActive
    /\ pendingFrames = 0

\* The laps of the result that hold sample k of the input.
lapsHolding(k) ==
    {l \in 1..Len(call.result) :
        \E j \in 1..Len(call.result[l].telemetryData) :
            call.result[l].telemetryData[j] = call.args.telemetryData[k]}

\* C30: for beacon markers that are non-negative and never decrease and
\* samples with time >= 0, splitIntoLaps gives every sample to exactly one
\* lap, the lap of marker l holding the samples from the previous marker (0
\* for the first) to before its own and a last lap those at or after the last
\* marker, and the lapTime of the lap of marker l is the marker minus the
\* previous marker.
EverySampleInOneBeaconLap ==
    (/\ call.routine = "splitIntoLaps"
     /\ call.done
     /\ \A i \in 1..Len(call.args.beaconMarkers) :
            /\ call.args.beaconMarkers[i] >= 0
            /\ i > 1 => call.args.beaconMarkers[i - 1] <= call.args.beaconMarkers[i]
     /\ \A k \in 1..Len(call.args.telemetryData) :
            call.args.telemetryData[k].time >= 0) =>
        LET beaconMarkers == call.args.beaconMarkers
            previousMarker(l) == IF l = 1 THEN 0 ELSE beaconMarkers[l - 1]
        IN  /\ \A k \in 1..Len(call.args.telemetryData) :
                   Cardinality(lapsHolding(k)) = 1
            /\ \A l \in 1..Len(call.result) :
                   \A j \in 1..Len(call.result[l].telemetryData) :
                       /\ \E k \in 1..Len(call.args.telemetryData) :
                              call.args.telemetryData[k] = call.result[l].telemetryData[j]
                       /\ \A i \in 1..Len(call.result[l].telemetryData) :
                              call.result[l].telemetryData[i]
                                  = call.result[l].telemetryData[j] => i = j
                       /\ l <= Len(beaconMarkers) =>
                              /\ call.result[l].telemetryData[j].time >= previousMarker(l)
                              /\ call.result[l].telemetryData[j].time < beaconMarkers[l]
                       /\ (l > Len(beaconMarkers) /\ Len(beaconMarkers) > 0) =>
                              call.result[l].telemetryData[j].time
                                  >= beaconMarkers[Len(beaconMarkers)]
            /\ Len(call.result) >= Len(beaconMarkers)
            /\ \A l \in 1..Len(beaconMarkers) :
                   call.result[l].lapTime = beaconMarkers[l] - previousMarker(l)

\* C30 witness: two markers, a sample at the time of the first, which went
\* to the second lap, and a sample after the last marker in a third lap.
SampleAtMarkerInLaterLap ==
    /\ call.routine = "splitIntoLaps"
    /\ call.done
    /\ call.args.beaconMarkers = <<5000, 10000>>
    /\ Len(call.result) = 3
    /\ \E k \in 1..Len(call.args.telemetryData) :
           /\ call.args.telemetryData[k].time = 5000
           /\ lapsHolding(k) = {2}
    /\ \E k \in 1..Len(call.args.telemetryData) :
           /\ call.args.telemetryData[k].time = 12000
           /\ lapsHolding(k) = {3}
====
